---- MODULE Spec2Model ----
(***************************************************************************)
(* Model of the spatial-to-symbolic mapping and referential-integrity      *)
(* subsystem of scenic-route: the MEI document (zones of the surface and   *)
(* the reading-order layer), the JSOMR staves, the glyph detections, and   *)
(* the functions of scripts/integrate_mei_workflow.py,                     *)
(* scripts/fix_mei_coordinates.py, scripts/glyph_to_jsomr_integration.py   *)
(* and scripts/polygons_to_jsomr.py that transform them.                   *)
(***************************************************************************)
EXTENDS Integers, Sequences, FiniteSets, TLC

VARIABLES
    zones,      \* the <zone> elements of the surface, in document order
    layer,      \* the children of the first <layer>, in document order
    staves,     \* jsomr "staves": bounding boxes in staff order
    glyphs,     \* glyph detections as read by parse_glyph_xml
    hist,       \* the operations applied to the document so far
    section,    \* the <staff> children of the <section>, each with its layer
    staffDefs,  \* the <staffDef> children of the <staffGrp>
    jGlyphs,    \* jsomr "glyphs": the glyph entries of the geometric record
    aGlyphs,    \* assignment: the glyph detections handed to an assigner
    aStaves,    \* assignment: the staff regions handed to an assigner
    aOut,       \* assignment: what the assigner returned
    pStaff,     \* pitch: the staff (curve centers, num_lines)
    pSeen,      \* pitch: glyph centers estimated so far, with their pitch
    cPolys,     \* clustering: the polygon list
    cTol,       \* clustering: vertical_tolerance
    cRuns,      \* clustering: inputs and outputs of the runs made so far
    jsGroups,   \* geometric record: the grouped polygons handed to the converter
    jsData,     \* geometric record: the jsomr data (staves and glyphs)
    jsHist,     \* geometric record: the steps applied to the jsomr data
    files,        \* main: the documents held by the files main reads and writes
    current_file, \* main: the file the next step reads
    temp_file,    \* main: the name held by temp_file
    temp_file2,   \* main: the name held by temp_file2
    args,         \* main: the modifying steps requested on the command line
    pc            \* main: the step block main executes next

repVars == <<section, staffDefs, jGlyphs>>
docVars == <<zones, layer, staves, glyphs, hist, section, staffDefs, jGlyphs>>
asgVars == <<aGlyphs, aStaves, aOut>>
pitVars == <<pStaff, pSeen>>
cluVars == <<cPolys, cTol, cRuns>>
jsoVars == <<jsGroups, jsData, jsHist>>
mainVars == <<files, current_file, temp_file, temp_file2, args, pc>>
vars == <<zones, layer, staves, glyphs, hist, section, staffDefs, jGlyphs,
          aGlyphs, aStaves, aOut, pStaff, pSeen, cPolys, cTol, cRuns,
          jsGroups, jsData, jsHist,
          files, current_file, temp_file, temp_file2, args, pc>>

----------------------------------------------------------------------------
(* Bounds of the model.                                                     *)

MaxZones == 2
MaxStaves == 2
MaxOps == 3

----------------------------------------------------------------------------
(* Generic sequence helpers.                                                *)

Min2(a, b) == IF a <= b THEN a ELSE b

Abs(a) == IF a < 0 THEN 0 - a ELSE a

\* all sequences over S of length at most n
SeqsUpTo(S, n) == UNION {[1..k -> S] : k \in 0..n}

\* list.insert(pos, x) with a 0-based position; a position past the end appends
ListInsert(seq, pos, x) ==
    LET p == Min2(pos, Len(seq))
    IN  SubSeq(seq, 1, p) \o <<x>> \o SubSeq(seq, p + 1, Len(seq))

\* the set of elements of a sequence
Range(seq) == {seq[i] : i \in 1..Len(seq)}

----------------------------------------------------------------------------
(* Identifiers, references and element records.                             *)

\* a zone without an xml:id attribute (zone.get(...) is None or empty)
NoId == ""

\* an element without a facs attribute
NoFacs == <<>>

\* f"#{zone_id}": the reference string held by a facs attribute
Facs(zone_id) == <<"#", zone_id>>

\* facs and facs.startswith("#")
IsRef(facs) == facs # NoFacs /\ facs[1] = "#"

\* facs[1:]: the id a reference names
RefTarget(facs) == facs[2]

\* f"zone-staff-{i+1}" for the 0-based staff index i+1-1, i.e. 1-based k
ZoneStaffId(k) == "zone-staff-" \o ToString(k)

\* f"zone-glyph-{staff_num}-{i+1}" for staff k and 1-based position j
ZoneGlyphId(k, j) == "zone-glyph-" \o ToString(k) \o "-" \o ToString(j)

\* the all-zero placeholder box of an empty zone
ZeroBox == <<0, 0, 0, 0>>

Zone(id, box) == [id |-> id, box |-> box]

\* an element of the layer: tag, n, facs, shape ("" when the attribute is absent)
Elem(tag, n, facs, shape) == [tag |-> tag, n |-> n, facs |-> facs, shape |-> shape]

Sb(n, facs) == Elem("sb", n, facs, "")

IsSb(e) == e.tag = "sb"

\* the ids of the zones that carry one, in document order
ZoneIdList(zs) ==
    LET withId == SelectSeq(zs, LAMBDA z : z.id # NoId)
    IN  [i \in 1..Len(withId) |-> withId[i].id]

\* the <sb> elements of the layer, in document order
SbElements(lay) == SelectSeq(lay, IsSb)

----------------------------------------------------------------------------
(* Glyph class names: substring tests of the source, tabulated for the     *)
(* names of the classifier's taxonomy that the model uses.                 *)

GlyphNames ==
    {"clef.c", "clef.f", "neume.punctum", "note.black", "custos", "accid", "divLine",
     "skip.edge"}

\* keyword in name, for the keywords the source tests
Contains(name, keyword) ==
    CASE keyword = "skip.edge" -> name = "skip.edge"
      [] keyword = "clef"      -> name \in {"clef.c", "clef.f"}
      [] keyword = "clef.f"    -> name = "clef.f"
      [] keyword = "clef.c"    -> name = "clef.c"
      [] keyword = "clef.g"    -> FALSE
      [] keyword = "note"      -> name = "note.black"
      [] keyword = "neume"     -> name = "neume.punctum"
      [] keyword = "custos"    -> name = "custos"
      [] keyword = "accid"     -> name = "accid"
      [] keyword = "divLine"   -> name = "divLine"
      [] OTHER                 -> FALSE

\* name.lower()
Lower(name) == IF name = "divLine" THEN "divline" ELSE name

\* parse_glyph_xml: a detection (ulx, uly, ncols, nrows, name) becomes a box
\* with lrx = ulx + ncols if ncols > 0 else ulx (and likewise lry)
ParseGlyph(d) ==
    [ulx |-> d.ulx, uly |-> d.uly,
     lrx |-> IF d.ncols > 0 THEN d.ulx + d.ncols ELSE d.ulx,
     lry |-> IF d.nrows > 0 THEN d.uly + d.nrows ELSE d.uly,
     name |-> d.name]

----------------------------------------------------------------------------
(* integrate_mei_workflow.assign_glyphs_to_staves                           *)

\* the overlap test with its second comparison left out
HorizOverlap_LeftOnly(g, st) == g.ulx < st.ulx + st.ncols

\* glyph["ulx"] < staff_lrx and glyph["lrx"] > staff_ulx
HorizOverlap(g, st) == g.ulx < st.ulx + st.ncols /\ g.lrx > st.ulx

\* glyph_center_y >= staff_uly and glyph_center_y <= staff_lry, with
\* glyph_center_y = (uly + lry) / 2 (compared after doubling)
WithinStaffVertically(g, st) ==
    /\ g.uly + g.lry >= 2 * st.uly
    /\ g.uly + g.lry <= 2 * (st.uly + st.nrows)

\* four times the score: vert_distance * (0.5 if within_staff_vertically else 1.0),
\* vert_distance = abs(glyph_center_y - staff_center_y)
Score4(g, st) ==
    LET dist2 == Abs((g.uly + g.lry) - (2 * st.uly + st.nrows))
    IN  IF WithinStaffVertically(g, st) THEN dist2 ELSE 2 * dist2

\* the loop with score <= best_score as its comparison: the last of several
\* staves of equal score wins
RECURSIVE BestStaffLoop_LastOnTie(_, _, _, _, _)
BestStaffLoop_LastOnTie(g, stv, i, best, bestScore4) ==
    IF i > Len(stv) THEN best
    ELSE IF ~HorizOverlap(g, stv[i])
         THEN BestStaffLoop_LastOnTie(g, stv, i + 1, best, bestScore4)
    ELSE IF best = 0 \/ Score4(g, stv[i]) <= bestScore4
         THEN BestStaffLoop_LastOnTie(g, stv, i + 1, i, Score4(g, stv[i]))
         ELSE BestStaffLoop_LastOnTie(g, stv, i + 1, best, bestScore4)

\* the loop over the staves: best_staff_num after staves i..N, given the best
\* so far (0 is None) and its score (meaningful only when best # 0)
RECURSIVE BestStaffLoop(_, _, _, _, _)
BestStaffLoop(g, stv, i, best, bestScore4) ==
    IF i > Len(stv) THEN best
    ELSE IF ~HorizOverlap(g, stv[i]) THEN BestStaffLoop(g, stv, i + 1, best, bestScore4)
    ELSE IF best = 0 \/ Score4(g, stv[i]) < bestScore4
         THEN BestStaffLoop(g, stv, i + 1, i, Score4(g, stv[i]))
         ELSE BestStaffLoop(g, stv, i + 1, best, bestScore4)

\* the staff number a glyph is appended to, 0 when it is appended nowhere
BestStaff(g, stv) ==
    IF Contains(g.name, "skip.edge") THEN 0 ELSE BestStaffLoop(g, stv, 1, 0, 0)

\* staves_with_glyphs: for each staff number the glyphs assigned, in input order
AssignGlyphsToStaves(gs, stv) ==
    [k \in 1..Len(stv) |-> SelectSeq(gs, LAMBDA g : BestStaff(g, stv) = k)]

----------------------------------------------------------------------------
(* integrate_mei_workflow.create_mei_zones_from_staves                      *)

\* the zone box with width and height written where lrx and lry belong
StaffBox_Extent(st) == <<st.ulx, st.uly, st.ncols, st.nrows>>

\* (ulx, uly, ulx + ncols, uly + nrows): the zone box of a staff bounding box
StaffBox(st) == <<st.ulx, st.uly, st.ulx + st.ncols, st.uly + st.nrows>>

\* the call with the removal of the existing zones left out of the branch
\* taken on a count mismatch
CreateMeiZonesFromStaves_KeepOld(zs, stv) ==
    IF Len(zs) = Len(stv)
    THEN [i \in 1..Len(zs) |->
             Zone(IF zs[i].id = NoId THEN ZoneStaffId(i) ELSE zs[i].id,
                  <<stv[i].ulx, stv[i].uly, stv[i].ulx + stv[i].ncols,
                    stv[i].uly + stv[i].nrows>>)]
    ELSE zs \o [i \in 1..Len(stv) |->
                   Zone(ZoneStaffId(i),
                        <<stv[i].ulx, stv[i].uly, stv[i].ulx + stv[i].ncols,
                          stv[i].uly + stv[i].nrows>>)]

\* the call with the positional id written to every zone of the branch taken
\* on equal counts, whether or not the zone already carries an id
CreateMeiZonesFromStaves_Rename(zs, stv) ==
    [i \in 1..Len(stv) |-> Zone(ZoneStaffId(i), StaffBox(stv[i]))]

\* the zones of the surface after the call: updated in place when the counts
\* match (a missing id becomes zone-staff-i), removed and recreated otherwise
CreateMeiZonesFromStaves(zs, stv) ==
    IF Len(zs) = Len(stv)
    THEN [i \in 1..Len(zs) |->
             Zone(IF zs[i].id = NoId THEN ZoneStaffId(i) ELSE zs[i].id,
                  StaffBox(stv[i]))]
    ELSE [i \in 1..Len(stv) |-> Zone(ZoneStaffId(i), StaffBox(stv[i]))]

\* the zone_ids list the call returns
StaffZoneIds(zs, stv) ==
    LET out == CreateMeiZonesFromStaves(zs, stv)
    IN  [i \in 1..Len(out) |-> out[i].id]

----------------------------------------------------------------------------
(* integrate_mei_workflow.create_mei_zones_for_glyphs                       *)

\* stable insertion of an entry into a list sorted by offset (list.sort is stable)
RECURSIVE InsertByOffset(_, _)
InsertByOffset(sorted, x) ==
    IF sorted = <<>> THEN <<x>>
    ELSE IF sorted[Len(sorted)].offset <= x.offset THEN Append(sorted, x)
    ELSE Append(InsertByOffset(SubSeq(sorted, 1, Len(sorted) - 1), x),
                sorted[Len(sorted)])

\* list.sort(key=lambda g: g["offset"]) / sorted(glyphs, key=...)
\* the list left in the order it has
SortByOffset_Unsorted(seq) == seq

RECURSIVE SortByOffset(_)
SortByOffset(seq) ==
    IF seq = <<>> THEN <<>>
    ELSE InsertByOffset(SortByOffset(SubSeq(seq, 1, Len(seq) - 1)), seq[Len(seq)])

\* the zones created for the glyphs of one staff, in enumeration order; the
\* position j of the enumeration names the zone also when a glyph is skipped
GlyphZonesOfStaff(k, sg) ==
    LET idx == SelectSeq([j \in 1..Len(sg) |-> j],
                         LAMBDA j : ~Contains(sg[j].name, "skip.edge"))
    IN  [m \in 1..Len(idx) |->
            Zone(ZoneGlyphId(k, idx[m]),
                 <<sg[idx[m]].ulx, sg[idx[m]].uly, sg[idx[m]].lrx, sg[idx[m]].lry>>)]

\* glyph_zones[staff_num] before the sort: zone id, name and offset per glyph
GlyphInfoOfStaff(k, sg) ==
    LET idx == SelectSeq([j \in 1..Len(sg) |-> j],
                         LAMBDA j : ~Contains(sg[j].name, "skip.edge"))
    IN  [m \in 1..Len(idx) |->
            [zone_id |-> ZoneGlyphId(k, idx[m]),
             name |-> sg[idx[m]].name,
             offset |-> sg[idx[m]].ulx]]

\* the zones appended to the surface, staff by staff
RECURSIVE GlyphZonesFrom(_, _)
GlyphZonesFrom(gbs, k) ==
    IF k > Len(gbs) THEN <<>>
    ELSE GlyphZonesOfStaff(k, gbs[k]) \o GlyphZonesFrom(gbs, k + 1)

\* the surface after the call
CreateMeiZonesForGlyphs(zs, gbs) == zs \o GlyphZonesFrom(gbs, 1)

\* the returned glyph_zones: per staff number the sorted infos; a staff
\* without glyph zones is no key of the dict (the empty list here)
GlyphZonesDict(gbs) ==
    [k \in 1..Len(gbs) |-> SortByOffset(GlyphInfoOfStaff(k, gbs[k]))]

----------------------------------------------------------------------------
(* integrate_mei_workflow.create_system_breaks                              *)

\* the call with the removal of the existing <sb> elements left out
CreateSystemBreaks_KeepOld(lay, zone_ids) ==
    lay \o [i \in 1..Len(zone_ids) |-> Sb(ToString(i), Facs(zone_ids[i]))]

\* the layer after the call: every <sb> removed, one <sb> per zone id appended
CreateSystemBreaks(lay, zone_ids) ==
    SelectSeq(lay, LAMBDA e : ~IsSb(e))
        \o [i \in 1..Len(zone_ids) |-> Sb(ToString(i), Facs(zone_ids[i]))]

----------------------------------------------------------------------------
(* integrate_mei_workflow.add_glyph_elements                                *)

\* sb_indices[n]: the 0-based index of the last <sb> of the layer with that
\* n, -1 when there is none
SbIndex(lay, n) ==
    LET hits == {i \in 1..Len(lay) : IsSb(lay[i]) /\ lay[i].n # "" /\ lay[i].n = n}
    IN  IF hits = {} THEN 0 - 1
        ELSE (CHOOSE i \in hits : \A j \in hits : j <= i) - 1

\* the shape of the <clef> created for a glyph name
ClefShapeOfName(name) ==
    IF Contains(name, "clef.f") THEN "F"
    ELSE IF Contains(name, "clef.c") THEN "C"
    ELSE IF Contains(name, "clef.g") THEN "G"
    ELSE "C"

\* the inner loop: the glyphs of one staff inserted from current_pos on
RECURSIVE InsertGlyphs(_, _, _, _)
InsertGlyphs(lay, sorted, j, current_pos) ==
    IF j > Len(sorted) THEN lay
    ELSE IF Contains(sorted[j].name, "clef")
         THEN InsertGlyphs(ListInsert(lay, current_pos,
                               Elem("clef", "", Facs(sorted[j].zone_id),
                                    ClefShapeOfName(sorted[j].name))),
                           sorted, j + 1, current_pos + 1)
    ELSE IF Contains(sorted[j].name, "note") \/ Contains(sorted[j].name, "neume")
         THEN InsertGlyphs(ListInsert(lay, current_pos,
                               Elem("neume", "", Facs(sorted[j].zone_id), "")),
                           sorted, j + 1, current_pos + 1)
    ELSE InsertGlyphs(lay, sorted, j + 1, current_pos)

\* the outer loop over the staff numbers of glyph_zones; sbIdx is the
\* sb_indices map computed once, before the first insertion
RECURSIVE AddGlyphLoop(_, _, _, _)
AddGlyphLoop(lay, gz, k, sbIdx) ==
    IF k > Len(gz) THEN lay
    ELSE IF gz[k] = <<>> \/ sbIdx[k] < 0 THEN AddGlyphLoop(lay, gz, k + 1, sbIdx)
    ELSE AddGlyphLoop(InsertGlyphs(lay, SortByOffset(gz[k]), 1, sbIdx[k] + 1),
                      gz, k + 1, sbIdx)

\* the layer after the call
AddGlyphElements(lay, gz) ==
    AddGlyphLoop(lay, gz, 1, [k \in 1..Len(gz) |-> SbIndex(lay, ToString(k))])

----------------------------------------------------------------------------
(* integrate_mei_workflow.integrate_mei_with_jsomr_and_glyphs               *)

\* the zones of the document after the whole pass
IntegrateZones(zs, stv, gs) ==
    CreateMeiZonesForGlyphs(CreateMeiZonesFromStaves(zs, stv),
                            AssignGlyphsToStaves(gs, stv))

\* the layer of the document after the whole pass
IntegrateLayer(zs, lay, stv, gs) ==
    AddGlyphElements(CreateSystemBreaks(lay, StaffZoneIds(zs, stv)),
                     GlyphZonesDict(AssignGlyphsToStaves(gs, stv)))

----------------------------------------------------------------------------
(* fix_mei_coordinates.fix_mei_coordinates                                  *)

\* the zone loop: zone k onwards, with jsomr_staff_index and xml_glyph_index
\* (0-based); an all-zero zone takes the next staff box, then the next glyph
\* box, and stays empty when both sources are used up
RECURSIVE FixZonesLoop(_, _, _, _, _, _)
FixZonesLoop(zs, k, staffIdx, glyphIdx, stv, xg) ==
    IF k > Len(zs) THEN zs
    ELSE IF zs[k].box # ZeroBox
         THEN FixZonesLoop(zs, k + 1, staffIdx, glyphIdx, stv, xg)
    ELSE IF staffIdx < Len(stv)
         THEN FixZonesLoop([zs EXCEPT ![k].box = StaffBox(stv[staffIdx + 1])],
                           k + 1, staffIdx + 1, glyphIdx, stv, xg)
    ELSE IF glyphIdx < Len(xg)
         THEN FixZonesLoop([zs EXCEPT ![k].box =
                                <<xg[glyphIdx + 1].ulx, xg[glyphIdx + 1].uly,
                                  xg[glyphIdx + 1].lrx, xg[glyphIdx + 1].lry>>],
                           k + 1, staffIdx, glyphIdx + 1, stv, xg)
    ELSE FixZonesLoop(zs, k + 1, staffIdx, glyphIdx, stv, xg)

\* the zone loop started with jsomr_staff_index = 1: the first staff is never used
FixZones_SkipFirstStaff(zs, stv, xg) == FixZonesLoop(zs, 1, 1, 0, stv, xg)

\* the zones after fix_mei_coordinates
FixZones(zs, stv, xg) == FixZonesLoop(zs, 1, 0, 0, stv, xg)

\* the number of <sb> elements among the first p elements of the layer
SbRank(lay, p) == Cardinality({q \in 1..p : IsSb(lay[q])})

\* the update of the facs references: the i-th <sb> of the document points to
\* the i-th zone id while zone ids remain
FixSbRefs(zs, lay) ==
    LET zone_id_list == ZoneIdList(zs)
    IN  [p \in 1..Len(lay) |->
            IF IsSb(lay[p]) /\ SbRank(lay, p) <= Len(zone_id_list)
            THEN [lay[p] EXCEPT !.facs = Facs(zone_id_list[SbRank(lay, p)])]
            ELSE lay[p]]

----------------------------------------------------------------------------
(* fix_mei_coordinates.add_missing_sb_elements                              *)

\* sb_refs: the ids the <sb> elements reference
SbRefs(lay) == {RefTarget(lay[p].facs) : p \in {q \in 1..Len(lay) : IsSb(lay[q]) /\ IsRef(lay[q].facs)}}

\* unreferenced_zones = set(zone_ids) - set(sb_refs)
UnreferencedZones(zs, lay) == Range(ZoneIdList(zs)) \ SbRefs(lay)

\* the orders in which a set may be enumerated
Orderings(S) == {f \in [1..Cardinality(S) -> S] : Range(f) = S}

\* the layer after the call, for the order in which the set of unreferenced
\* zone ids is enumerated: one <sb> appended per id, numbered from len(sbs) + 1
AddMissingSb(lay, order) ==
    lay \o [i \in 1..Len(order) |->
               Sb(ToString(Len(SbElements(lay)) + i), Facs(order[i]))]

----------------------------------------------------------------------------
(* The document state machine.                                              *)

\* the jsomr staff at position k: staves stacked top to bottom
StaffAt(k) == [ulx |-> 10, uly |-> 100 * k - 90, ncols |-> 200, nrows |-> 40]

StavesOf(n) == [k \in 1..n |-> StaffAt(k)]

\* a glyph detection of the glyph XML file
Detection(ulx, uly, name) ==
    [ulx |-> ulx, uly |-> uly, ncols |-> 10, nrows |-> 10, name |-> name]

\* the glyph XML files: none, one neume on the first staff, a neume without
\* width, two marks on the first staff from right to left, a clef on the
\* second staff before an edge artefact and a neume on the first staff
DetectionLists ==
    { <<>>,
      <<Detection(60, 20, "neume.punctum")>>,
      <<[Detection(40, 20, "neume.punctum") EXCEPT !.ncols = 0]>>,
      <<Detection(60, 20, "neume.punctum"), Detection(30, 25, "note.black")>>,
      <<Detection(20, 120, "clef.c"), Detection(5, 30, "skip.edge"),
        Detection(60, 20, "neume.punctum")>> }

\* zones of a starting document
InitZoneSet ==
    { Zone(NoId, ZeroBox), Zone("z1", ZeroBox), Zone("z2", <<1, 1, 2, 2>>) }

\* layers of a starting document: empty, a structural marker, a mark element
\* followed by a structural marker
InitLayers ==
    { <<>>,
      <<Sb("1", Facs("z1"))>>,
      <<Elem("neume", "", Facs("z1"), ""), Sb("1", Facs("z1"))>> }

\* the zones of a document written by an earlier reconcile pass, for a
\* geometric record of one staff and a glyph file of one neume
EarlierPassZones ==
    IntegrateZones(<<>>, StavesOf(1), <<ParseGlyph(Detection(60, 20, "neume.punctum"))>>)

\* xml:id values are unique among the zones that carry one
DistinctIds(zs) ==
    \A i, j \in 1..Len(zs) : (i # j /\ zs[i].id # NoId) => zs[i].id # zs[j].id

\* the values the variables of the other state machines keep in this one
AsgIdle == aGlyphs = <<>> /\ aStaves = <<>> /\ aOut = <<>>

PitIdle == pStaff = <<>> /\ pSeen = {}

CluIdle == cPolys = <<>> /\ cTol = 0 /\ cRuns = <<>>

RepIdle == section = <<>> /\ staffDefs = <<>> /\ jGlyphs = <<>>

\* jsomr data without a staff and without a glyph
NoJsomr == [staves |-> <<>>, glyphs |-> <<>>]

JsoIdle == jsGroups = <<>> /\ jsData = NoJsomr /\ jsHist = <<>>

\* a file that does not exist
NoFile == [exists |-> FALSE,
           doc |-> [zones |-> <<>>, section |-> <<>>, staffDefs |-> <<>>]]

\* the files main works on before the input document is there
NoFiles == [mei |-> NoFile, temp |-> NoFile, temp2 |-> NoFile, output |-> NoFile]

MainIdle ==
    /\ files = NoFiles /\ current_file = "" /\ temp_file = "" /\ temp_file2 = ""
    /\ args = {} /\ pc = 0

Init ==
    /\ zones \in {zs \in SeqsUpTo(InitZoneSet, MaxZones) : DistinctIds(zs)}
                 \cup {EarlierPassZones}
    /\ layer \in InitLayers
    /\ staves \in {StavesOf(n) : n \in 0..MaxStaves}
    /\ \E ds \in DetectionLists :
           glyphs = [i \in 1..Len(ds) |-> ParseGlyph(ds[i])]
    /\ hist = <<>>
    /\ RepIdle /\ AsgIdle /\ PitIdle /\ CluIdle /\ JsoIdle /\ MainIdle

\* create_mei_zones_from_staves called on the document
Sync ==
    /\ Len(hist) < MaxOps
    /\ zones' = CreateMeiZonesFromStaves(zones, staves)
    /\ hist' = Append(hist, "sync")
    /\ UNCHANGED <<layer, staves, glyphs, repVars, asgVars, pitVars, cluVars, jsoVars, mainVars>>

\* integrate_mei_with_jsomr_and_glyphs: the reconcile pass
Integrate ==
    /\ Len(hist) < MaxOps
    /\ zones' = IntegrateZones(zones, staves, glyphs)
    /\ layer' = IntegrateLayer(zones, layer, staves, glyphs)
    /\ hist' = Append(hist, "integrate")
    /\ UNCHANGED <<staves, glyphs, repVars, asgVars, pitVars, cluVars, jsoVars, mainVars>>

\* fix_mei_coordinates
Fix ==
    /\ Len(hist) < MaxOps
    /\ zones' = FixZones(zones, staves, glyphs)
    /\ layer' = FixSbRefs(zones, layer)
    /\ hist' = Append(hist, "fix")
    /\ UNCHANGED <<staves, glyphs, repVars, asgVars, pitVars, cluVars, jsoVars, mainVars>>

\* add_missing_sb_elements; the set of unreferenced ids is enumerated in an
\* order the run does not control
AddMissing ==
    /\ Len(hist) < MaxOps
    /\ \E order \in Orderings(UnreferencedZones(zones, layer)) :
           layer' = AddMissingSb(layer, order)
    /\ hist' = Append(hist, "add_missing")
    /\ UNCHANGED <<zones, staves, glyphs, repVars, asgVars, pitVars, cluVars, jsoVars, mainVars>>

Next == Sync \/ Integrate \/ Fix \/ AddMissing

Spec == Init /\ [][Next]_vars

----------------------------------------------------------------------------
(* Properties of the document state machine.                                *)

\* the operations applied last, oldest first
EndsWith(h, suffix) ==
    /\ Len(h) >= Len(suffix)
    /\ SubSeq(h, Len(h) - Len(suffix) + 1, Len(h)) = suffix

\* the step just taken is the operation op
StepOf(op) == hist' = Append(hist, op)

\* the ids of the zones of the region container
ZoneIdSet(zs) == {zs[i].id : i \in 1..Len(zs)} \ {NoId}

\* C1: create_mei_zones_from_staves is idempotent: on every document the
\* program reaches and for every staff list, calling it a second time with the
\* same staff list leaves the region container (count, order, ids, boxes) as
\* the first call left it.
C1_SyncIdempotent ==
    \A n \in 0..MaxStaves :
        CreateMeiZonesFromStaves(CreateMeiZonesFromStaves(zones, StavesOf(n)), StavesOf(n))
            = CreateMeiZonesFromStaves(zones, StavesOf(n))

\* a sync has just updated two zones in place, keeping the id of the first
\* and naming the second; a staff list of another length recreates them
C1_Witness ==
    /\ EndsWith(hist, <<"sync">>)
    /\ Len(zones) = 2
    /\ zones[1].id = "z1"
    /\ zones[2].id = ZoneStaffId(2)

\* C2: the repairer has a fixed point: a repair operation applied to the
\* document that the same operation has just produced, with the same
\* geometry, changes neither the zones nor the layer.
C2_RepairFixedPoint ==
    [][\A op \in {"fix", "add_missing"} :
           (EndsWith(hist, <<op>>) /\ StepOf(op)) => (zones' = zones /\ layer' = layer)]_vars

\* every reference of an <sb>, <clef> or <neume> names an existing zone
NoDanglingRefs ==
    \A p \in 1..Len(layer) :
        IsRef(layer[p].facs) => RefTarget(layer[p].facs) \in ZoneIdSet(zones)

\* C3: after a reconcile pass followed by fix_mei_coordinates and
\* add_missing_sb_elements, on any starting document, every reference of a
\* structural marker, clef or mark element targets an existing region.
C3_NoDanglingAfterRepair ==
    EndsWith(hist, <<"integrate", "fix", "add_missing">>) => NoDanglingRefs

\* C4: after fix_mei_coordinates and add_missing_sb_elements on a reconciled
\* document the number of structural markers equals the number of staves.
C4_MarkerCountIsStaffCount ==
    EndsWith(hist, <<"integrate", "fix", "add_missing">>)
        => Len(SbElements(layer)) = Len(staves)

\* C10 as stated: on a count mismatch the call leaves one region per staff, in
\* staff order, with the staff's box and an id no discarded region carried.
C10_FreshIdsUnused ==
    [][(StepOf("sync") /\ Len(zones) # Len(staves)) =>
           /\ Len(zones') = Len(staves)
           /\ \A i \in 1..Len(staves) :
                  /\ zones'[i].box = <<staves[i].ulx, staves[i].uly,
                                       staves[i].ulx + staves[i].ncols,
                                       staves[i].uly + staves[i].nrows>>
                  /\ zones'[i].id \notin ZoneIdSet(zones)]_vars

\* C10 (amended): on a count mismatch the call leaves exactly one region per
\* staff, in staff order, the i-th with the i-th staff's box (ulx, uly,
\* ulx+ncols, uly+nrows) and the positional id zone-staff-i, whether or not a
\* discarded region carried that id.
C10_FreshPositionalIds ==
    [][(StepOf("sync") /\ Len(zones) # Len(staves)) =>
           /\ Len(zones') = Len(staves)
           /\ \A i \in 1..Len(staves) :
                  /\ zones'[i].box[1] = staves[i].ulx
                  /\ zones'[i].box[2] = staves[i].uly
                  /\ zones'[i].box[3] - zones'[i].box[1] = staves[i].ncols
                  /\ zones'[i].box[4] - zones'[i].box[2] = staves[i].nrows
                  /\ zones'[i].id = ZoneStaffId(i)]_vars

\* a sync has just recreated the zones of a reconciled document, whose glyph
\* zones made the zone count exceed the staff count
C10_Witness ==
    /\ hist = <<"integrate", "sync">>
    /\ Len(staves) = 2
    /\ Len(glyphs) > 0
    /\ Len(zones) = 2

\* C11: when the number of zones equals the number of staves,
\* create_mei_zones_from_staves keeps the number and order of the zones, leaves
\* the id of every zone that has one unchanged, and sets the box of the i-th
\* zone to (ulx, uly, ulx+ncols, uly+nrows) of the i-th staff.
C11_EqualCountKeepsIds ==
    [][(StepOf("sync") /\ Len(zones) = Len(staves)) =>
           /\ Len(zones') = Len(zones)
           /\ \A i \in 1..Len(zones) :
                  /\ zones[i].id # NoId => zones'[i].id = zones[i].id
                  /\ zones'[i].box[1] = staves[i].ulx
                  /\ zones'[i].box[2] = staves[i].uly
                  /\ zones'[i].box[3] = staves[i].ulx + staves[i].ncols
                  /\ zones'[i].box[4] = staves[i].uly + staves[i].nrows]_vars

\* a first sync has updated the only zone of the document in place: it keeps
\* the id z2 it came with and carries the box of the only staff
C11_Witness ==
    /\ hist = <<"sync">>
    /\ Len(staves) = 1
    /\ zones = <<Zone("z2", <<10, 10, 210, 50>>)>>

----------------------------------------------------------------------------
(* glyph_to_jsomr_integration.assign_glyphs_to_staves                       *)

\* twice the vertical distance between the glyph center uly + nrows/2 and the
\* staff center uly + nrows/2
CenterDistance2(d, st) == Abs((2 * d.uly + d.nrows) - (2 * st.uly + st.nrows))

\* the loop over the staves: closest_staff (1-based, 0 is None) after staves
\* i..N, given the closest so far and its distance
RECURSIVE ClosestStaffLoop(_, _, _, _, _)
ClosestStaffLoop(d, stv, i, closest, minDistance2) ==
    IF i > Len(stv) THEN closest
    ELSE IF closest = 0 \/ CenterDistance2(d, stv[i]) < minDistance2
         THEN ClosestStaffLoop(d, stv, i + 1, i, CenterDistance2(d, stv[i]))
         ELSE ClosestStaffLoop(d, stv, i + 1, closest, minDistance2)

ClosestStaff(d, stv) == ClosestStaffLoop(d, stv, 1, 0, 0)

\* the jsomr glyph entry built for a detection assigned to staff k; "staff"
\* holds the number that the source stores as str(k) and reads back with int
JsomrGlyph(d, k) ==
    [staff |-> k, offset |-> d.ulx, strt_pos |-> "1", note |-> "c", octave |-> "4",
     clef_pos |-> "None", clef |-> "None",
     ulx |-> d.ulx, uly |-> d.uly, ncols |-> d.ncols, nrows |-> d.nrows,
     name |-> d.name]

\* assigned_glyphs: the entries of the detections that are not skip.edge and
\* for which a closest staff exists, in input order
AssignJsomrGlyphs(ds, stv) ==
    LET kept == SelectSeq(ds, LAMBDA d : d.name # "skip.edge" /\ ClosestStaff(d, stv) # 0)
    IN  [i \in 1..Len(kept) |-> JsomrGlyph(kept[i], ClosestStaff(kept[i], stv))]

----------------------------------------------------------------------------
(* The assignment state machine: both assigners applied to glyph detections *)
(* and staff regions drawn from a grid of coordinates.                      *)

MaxAsgGlyphs == 1
MaxAsgStaves == 2

AsgDetections ==
    [ulx : {2, 26}, uly : {2, 15, 40}, ncols : {4}, nrows : {4}, name : {"neume.punctum"}]
        \cup {[ulx |-> 2, uly |-> 2, ncols |-> 4, nrows |-> 4, name |-> "skip.edge"]}

AsgStaffSet ==
    [ulx : {0, 30}, uly : {0, 16}, ncols : {20}, nrows : {4, 20}]
        \cup {[ulx |-> 0, uly |-> 18, ncols |-> 20, nrows |-> 8]}

DocIdle ==
    /\ zones = <<>> /\ layer = <<>> /\ staves = <<>> /\ glyphs = <<>> /\ hist = <<>>
    /\ RepIdle

\* the glyph and the regions A and B of the worked example of the assigner
ExampleDetections ==
    <<[ulx |-> 100, uly |-> 50, ncols |-> 10, nrows |-> 10, name |-> "neume.punctum"]>>

ExampleStaves ==
    <<[ulx |-> 0, uly |-> 0, ncols |-> 200, nrows |-> 40],
      [ulx |-> 0, uly |-> 45, ncols |-> 200, nrows |-> 40]>>

InitAssign ==
    /\ \/ /\ aGlyphs \in SeqsUpTo(AsgDetections, MaxAsgGlyphs)
          /\ aStaves \in SeqsUpTo(AsgStaffSet, MaxAsgStaves)
       \/ /\ aGlyphs = ExampleDetections
          /\ aStaves = ExampleStaves
    /\ aOut = <<>>
    /\ DocIdle /\ PitIdle /\ CluIdle /\ JsoIdle /\ MainIdle

\* integrate_mei_workflow.assign_glyphs_to_staves on the parsed detections
AssignWorkflow ==
    /\ aOut = <<>>
    /\ aOut' = [by |-> "workflow",
                lists |-> AssignGlyphsToStaves(
                              [i \in 1..Len(aGlyphs) |-> ParseGlyph(aGlyphs[i])], aStaves)]
    /\ UNCHANGED <<aGlyphs, aStaves, docVars, pitVars, cluVars, jsoVars, mainVars>>

\* glyph_to_jsomr_integration.assign_glyphs_to_staves on the detections
AssignJsomr ==
    /\ aOut = <<>>
    /\ aOut' = [by |-> "jsomr", glyphs |-> AssignJsomrGlyphs(aGlyphs, aStaves)]
    /\ UNCHANGED <<aGlyphs, aStaves, docVars, pitVars, cluVars, jsoVars, mainVars>>

NextAssign == AssignWorkflow \/ AssignJsomr

SpecAssign == InitAssign /\ [][NextAssign]_vars

\* the box of a detection overlaps the box of a region horizontally:
\* glyph_left < region_right and glyph_right > region_left
OverlapsHorizontally(left, right, st) == left < st.ulx + st.ncols /\ right > st.ulx

\* the box (left, top, right, bottom) lies entirely inside the region's box
LiesInside(left, top, right, bottom, st) ==
    /\ left >= st.ulx /\ right <= st.ulx + st.ncols
    /\ top >= st.uly /\ bottom <= st.uly + st.nrows

\* C5: the workflow assigner never puts a glyph into the list of a staff whose
\* box lacks horizontal overlap with it, and a glyph that overlaps no staff
\* horizontally is in no staff's list.
C5_WorkflowAssignNeedsOverlap ==
    (aOut # <<>> /\ aOut.by = "workflow") =>
        /\ \A k \in 1..Len(aStaves) : \A i \in 1..Len(aOut.lists[k]) :
               OverlapsHorizontally(aOut.lists[k][i].ulx, aOut.lists[k][i].lrx, aStaves[k])
        /\ \A j \in 1..Len(aGlyphs) :
               (\A k \in 1..Len(aStaves) :
                    ~OverlapsHorizontally(ParseGlyph(aGlyphs[j]).ulx,
                                          ParseGlyph(aGlyphs[j]).lrx, aStaves[k]))
               => \A k \in 1..Len(aStaves) :
                      ParseGlyph(aGlyphs[j]) \notin Range(aOut.lists[k])

\* the workflow assigner has placed a glyph in the list of the second staff
\* while the first staff, the one nearer to the glyph's center, lacks
\* horizontal overlap with it
C5_Witness ==
    /\ aOut # <<>> /\ aOut.by = "workflow"
    /\ Len(aStaves) = 2 /\ Len(aGlyphs) = 1
    /\ aOut.lists[2] # <<>>
    /\ ~OverlapsHorizontally(aOut.lists[2][1].ulx, aOut.lists[2][1].lrx, aStaves[1])
    /\ Score4(aOut.lists[2][1], aStaves[1]) < Score4(aOut.lists[2][1], aStaves[2])

\* C6: the assigner of glyph_to_jsomr_integration never assigns a glyph to a
\* staff region that lacks horizontal overlap with the glyph's box, and a
\* glyph that overlaps no region horizontally is left out of the output.
C6_JsomrAssignNeedsOverlap ==
    (aOut # <<>> /\ aOut.by = "jsomr") =>
        /\ \A i \in 1..Len(aOut.glyphs) :
               OverlapsHorizontally(aOut.glyphs[i].ulx,
                                    aOut.glyphs[i].ulx + aOut.glyphs[i].ncols,
                                    aStaves[aOut.glyphs[i].staff])
        /\ \A j \in 1..Len(aGlyphs) :
               (\A k \in 1..Len(aStaves) :
                    ~OverlapsHorizontally(aGlyphs[j].ulx, aGlyphs[j].ulx + aGlyphs[j].ncols,
                                          aStaves[k]))
               => \A i \in 1..Len(aOut.glyphs) :
                      <<aOut.glyphs[i].ulx, aOut.glyphs[i].uly, aOut.glyphs[i].ncols,
                        aOut.glyphs[i].nrows, aOut.glyphs[i].name>>
                      # <<aGlyphs[j].ulx, aGlyphs[j].uly, aGlyphs[j].ncols,
                          aGlyphs[j].nrows, aGlyphs[j].name>>

\* C7: a glyph (not an ignored class) whose box lies entirely inside the box
\* of exactly one region is assigned to that region by the workflow assigner,
\* whatever other regions overlap it horizontally.
C7_InsideUniqueRegionAssigned ==
    (aOut # <<>> /\ aOut.by = "workflow") =>
        \A j \in 1..Len(aGlyphs) : \A k \in 1..Len(aStaves) :
            LET g == ParseGlyph(aGlyphs[j])
            IN  (/\ g.name # "skip.edge"
                 /\ LiesInside(g.ulx, g.uly, g.lrx, g.lry, aStaves[k])
                 /\ \A m \in 1..Len(aStaves) :
                        m # k => ~LiesInside(g.ulx, g.uly, g.lrx, g.lry, aStaves[m]))
                => g \in Range(aOut.lists[k])

----------------------------------------------------------------------------
(* glyph_to_jsomr_integration.estimate_pitch_from_position                  *)

\* scale_degrees
ScaleDegrees == <<"c", "d", "e", "f", "g", "a", "b">>

\* scale_degrees.index(note), 0-based
DegreeIndex(note) == (CHOOSE i \in 1..Len(ScaleDegrees) : ScaleDegrees[i] = note) - 1

\* base_note and base_octave
BaseNote == "c"

BaseOctave == 4

\* int(s) for the decimal string of an octave number
IntOfString(s) == CHOOSE n \in 0..20 : ToString(n) = s

RECURSIVE SumY(_)
SumY(line) ==
    IF line = <<>> THEN 0
    ELSE IF Len(line) = 1 THEN line[1][2]
    ELSE LET half == Len(line) \div 2
         IN  SumY(SubSeq(line, 1, half)) + SumY(SubSeq(line, half + 1, Len(line)))

\* |glyph_center_y - line_center| for curve i, scaled by 2 * len(line): the
\* glyph center is uly + nrows/2, the line center the mean y of its points
LineDistanceNum(gl, line) == Abs((2 * gl.uly + gl.nrows) * Len(line) - 2 * SumY(line))

\* the distance to curve i is smaller than the distance to curve j
Nearer(gl, lines, i, j) ==
    LineDistanceNum(gl, lines[i]) * Len(lines[j]) < LineDistanceNum(gl, lines[j]) * Len(lines[i])

\* np.argmin over the distances: the first curve of minimal distance (0-based)
ClosestLineIdx(gl, lines) ==
    (CHOOSE i \in 1..Len(lines) :
        /\ \A j \in 1..Len(lines) : ~Nearer(gl, lines, j, i)
        /\ \A j \in 1..(i - 1) : Nearer(gl, lines, i, j)) - 1

\* pitch_map[i] for 0 <= i < num_lines: base note plus i scale degrees, the
\* octave incremented when i > 0 and the degree index is <= that of the base
PitchMapEntry(i) ==
    LET degree_idx == (DegreeIndex(BaseNote) + i) % Len(ScaleDegrees)
    IN  <<ScaleDegrees[degree_idx + 1],
          ToString(IF i > 0 /\ degree_idx <= DegreeIndex(BaseNote)
                   THEN BaseOctave + 1 ELSE BaseOctave)>>

\* glyph_center_y < line_centers[i] (i 1-based here)
AboveLine(gl, line) == (2 * gl.uly + gl.nrows) * Len(line) < 2 * SumY(line)

\* glyph_center_y > line_centers[i]
BelowLine(gl, line) == (2 * gl.uly + gl.nrows) * Len(line) > 2 * SumY(line)

\* the (note, octave) pair returned for a glyph box and a staff
EstimatePitchFromPosition(gl, st) ==
    LET lines == st.line_positions
        closest == ClosestLineIdx(gl, lines)
    IN  IF closest = 0 /\ AboveLine(gl, lines[1])
        THEN LET lowest == PitchMapEntry(0)
                 idx == DegreeIndex(lowest[1]) - 1
             IN  IF idx < 0
                 THEN <<ScaleDegrees[Len(ScaleDegrees)], ToString(IntOfString(lowest[2]) - 1)>>
                 ELSE <<ScaleDegrees[idx + 1], ToString(IntOfString(lowest[2]))>>
        ELSE IF closest = Len(lines) - 1 /\ BelowLine(gl, lines[Len(lines)])
        THEN LET highest == PitchMapEntry(st.num_lines - 1)
                 idx == (DegreeIndex(highest[1]) + 1) % Len(ScaleDegrees)
             IN  <<ScaleDegrees[idx + 1],
                   ToString(IF idx = 0 THEN IntOfString(highest[2]) + 1
                            ELSE IntOfString(highest[2]))>>
        ELSE IF closest < st.num_lines
        THEN PitchMapEntry(closest)
        ELSE <<BaseNote, ToString(BaseOctave)>>

----------------------------------------------------------------------------
(* The pitch state machine: glyph boxes estimated against one staff whose   *)
(* 8 curves are ordered top to bottom.                                      *)

MaxSeen == 3

\* curve j (0-based) of a staff: two sampled points, the second lower by tilt
CurveAt(top, gap, tilt, j) == <<<<0, top + j * gap>>, <<100, top + j * gap + tilt>>>>

PitchStaffs ==
    {[line_positions |-> [j \in 1..8 |-> CurveAt(top, gap, tilt, j - 1)],
      num_lines |-> n] :
        top \in {10}, gap \in {4, 10}, tilt \in {0, 2}, n \in {4, 8}}

PitchGlyphBoxes == [uly : {8 * i : i \in 0..12}, nrows : {0, 5}]

InitPitch ==
    /\ pStaff \in PitchStaffs
    /\ pSeen = {}
    /\ DocIdle /\ AsgIdle /\ CluIdle /\ JsoIdle /\ MainIdle

\* estimate_pitch_from_position called for one more glyph of the staff; the
\* glyphs are taken from top to bottom
EstimatePitch ==
    /\ Cardinality(pSeen) < MaxSeen
    /\ \E gl \in PitchGlyphBoxes :
           /\ \A e \in pSeen : 2 * e.uly + e.nrows < 2 * gl.uly + gl.nrows
           /\ pSeen' = pSeen \cup {[uly |-> gl.uly, nrows |-> gl.nrows,
                                    pitch |-> EstimatePitchFromPosition(gl, pStaff)]}
    /\ UNCHANGED <<pStaff, docVars, asgVars, cluVars, jsoVars, mainVars>>

NextPitch == EstimatePitch

SpecPitch == InitPitch /\ [][NextPitch]_vars

\* the place of a (note, octave) pair in the diatonic-with-octave order
PitchRank(pitch) == 7 * IntOfString(pitch[2]) + DegreeIndex(pitch[1])

\* twice the vertical center of a glyph box
Center2(e) == 2 * e.uly + e.nrows

\* C8: for a fixed staff whose 8 curves are ordered top to bottom the pitch
\* is monotonic in the glyph's vertical center: over all glyphs estimated,
\* from above the top curve to below the bottom curve, the pitches are all
\* non-decreasing or all non-increasing in the center.
C8_PitchMonotonic ==
    \/ \A a, b \in pSeen : Center2(a) <= Center2(b) => PitchRank(a.pitch) <= PitchRank(b.pitch)
    \/ \A a, b \in pSeen : Center2(a) <= Center2(b) => PitchRank(a.pitch) >= PitchRank(b.pitch)

----------------------------------------------------------------------------
(* polygons_to_jsomr.group_polygons_vertically                              *)

\* the key of an empty polygon in the sort: float('inf')
Infinity == 1000000

RECURSIVE MinY(_)
MinY(poly) ==
    IF Len(poly) = 1 THEN poly[1][2] ELSE Min2(poly[1][2], MinY(Tail(poly)))

RECURSIVE MaxY(_)
MaxY(poly) ==
    IF Len(poly) = 1 THEN poly[1][2]
    ELSE IF poly[1][2] >= MaxY(Tail(poly)) THEN poly[1][2] ELSE MaxY(Tail(poly))

\* the sort key: min(y for x, y in poly) if poly else float('inf')
TopKey(poly) == IF poly = <<>> THEN Infinity ELSE MinY(poly)

\* stable insertion of a polygon into a list sorted by TopKey
RECURSIVE InsertByTop(_, _)
InsertByTop(sorted, poly) ==
    IF sorted = <<>> THEN <<poly>>
    ELSE IF TopKey(sorted[Len(sorted)]) <= TopKey(poly) THEN Append(sorted, poly)
    ELSE Append(InsertByTop(SubSeq(sorted, 1, Len(sorted) - 1), poly),
                sorted[Len(sorted)])

\* sorted(polygons, key=...): stable, polygons of equal key keep input order
RECURSIVE SortByTop(_)
SortByTop(polys) ==
    IF polys = <<>> THEN <<>>
    ELSE InsertByTop(SortByTop(SubSeq(polys, 1, Len(polys) - 1)), polys[Len(polys)])

\* the number of points of the polygons of a group
RECURSIVE GroupPointCount(_)
GroupPointCount(group) ==
    IF group = <<>> THEN 0 ELSE Len(group[1]) + GroupPointCount(Tail(group))

\* the sum of the y coordinates of the points of a group
RECURSIVE GroupSumY(_)
GroupSumY(group) ==
    IF group = <<>> THEN 0 ELSE SumY(group[1]) + GroupSumY(Tail(group))

\* the comparison with <= in place of <
CloseToGroup_Inclusive(poly, group, tol) ==
    Abs((MinY(poly) + MaxY(poly)) * GroupPointCount(group) - 2 * GroupSumY(group))
        <= 2 * GroupPointCount(group) * tol

\* abs(poly_center_y - group_center_y) < vertical_tolerance, with
\* poly_center_y = (min_y + max_y) / 2 and group_center_y the mean y of all
\* points of the group (both sides scaled by twice the point count)
CloseToGroup(poly, group, tol) ==
    Abs((MinY(poly) + MaxY(poly)) * GroupPointCount(group) - 2 * GroupSumY(group))
        < 2 * GroupPointCount(group) * tol

\* the loop over the sorted polygons from position i on, with the groups
\* closed so far and the running group
RECURSIVE GroupLoop(_, _, _, _, _)
GroupLoop(sorted, i, grouped, current, tol) ==
    IF i > Len(sorted)
    THEN IF current # <<>> THEN Append(grouped, current) ELSE grouped
    ELSE IF sorted[i] = <<>> THEN GroupLoop(sorted, i + 1, grouped, current, tol)
    ELSE IF current = <<>> THEN GroupLoop(sorted, i + 1, grouped, <<sorted[i]>>, tol)
    ELSE IF CloseToGroup(sorted[i], current, tol)
         THEN GroupLoop(sorted, i + 1, grouped, Append(current, sorted[i]), tol)
         ELSE GroupLoop(sorted, i + 1, Append(grouped, current), <<sorted[i]>>, tol)

\* grouped_staves for a polygon list and a tolerance
GroupPolygonsVertically(polys, tol) ==
    IF polys = <<>> THEN <<>> ELSE GroupLoop(SortByTop(polys), 1, <<>>, <<>>, tol)

----------------------------------------------------------------------------
(* The clustering state machine: the same polygons handed to the clusterer  *)
(* in several orders.                                                       *)

MaxPolys == 3
MaxRuns == 2

\* polygons: two points spanning a vertical extent, or no point at all
ClusterPolygons ==
    {<<>>} \cup {<<<<0, ys[1]>>, <<40, ys[2]>>>> :
                    ys \in {e \in {0, 20, 200} \X {20, 260} : e[1] <= e[2]}}

\* the polygons of the worked example: vertical centers 10, 12, 300 and 305
ExamplePolygons ==
    <<<<<<0, 5>>, <<40, 15>>>>, <<<<0, 8>>, <<40, 16>>>>,
      <<<<0, 290>>, <<40, 310>>>>, <<<<0, 300>>, <<40, 310>>>>>>

InitCluster ==
    /\ \/ /\ cPolys \in SeqsUpTo(ClusterPolygons, MaxPolys)
          /\ cTol \in {50, 100}
       \/ /\ cPolys = ExamplePolygons
          /\ cTol = 50
    /\ cRuns = <<>>
    /\ DocIdle /\ AsgIdle /\ PitIdle /\ JsoIdle /\ MainIdle

\* group_polygons_vertically called with the polygons in some order
ClusterRun ==
    /\ Len(cRuns) < MaxRuns
    /\ \E order \in Orderings(1..Len(cPolys)) :
           cRuns' = Append(cRuns,
                       GroupPolygonsVertically([i \in 1..Len(cPolys) |-> cPolys[order[i]]], cTol))
    /\ UNCHANGED <<cPolys, cTol, docVars, asgVars, pitVars, jsoVars, mainVars>>

NextCluster == ClusterRun

SpecCluster == InitCluster /\ [][NextCluster]_vars

\* C9: clustering is order-independent: for a fixed tolerance every
\* permutation of the same polygon list yields the same groups (membership
\* and group order), also when polygons share their top-most y.
C9_ClusterOrderIndependent ==
    \A r1, r2 \in 1..Len(cRuns) : cRuns[r1] = cRuns[r2]

----------------------------------------------------------------------------
(* Documents with a section of staffs: the records of the structural        *)
(* repairer (fix_mei_coordinates.py).                                       *)

\* a <staff> child of the section with its n attribute ("" when absent) and
\* the children of its layer
Staff(n, lay) == [n |-> n, layer |-> lay]

\* a <staffDef>: n, lines, notationtype, clef.shape, clef.line and xml:id,
\* "" for an attribute the element does not carry
StaffDef(n, lines, notationtype, clefShape, clefLine, id) ==
    [n |-> n, lines |-> lines, notationtype |-> notationtype,
     clef_shape |-> clefShape, clef_line |-> clefLine, id |-> id]

\* a <pb> element
Pb == Elem("pb", "", NoFacs, "")

IsPb(e) == e.tag = "pb"

\* the element e with child elements, in document order; an element without
\* children has no children field
WithChildren(e, kids) ==
    [tag |-> e.tag, n |-> e.n, facs |-> e.facs, shape |-> e.shape, children |-> kids]

HasChildren(e) == "children" \in DOMAIN e

\* ET.Element(e.tag, e.attrib): a new element with the tag and the attributes
\* of e and without children
ShallowCopy(e) == [x \in DOMAIN e \ {"children"} |-> e[x]]

\* the clone restructure_mei_staves makes of a layer element: a new element
\* with its tag and attributes, to which a new element is appended for each
\* child, with the child's tag and attributes only
ElementCopy(e) ==
    IF HasChildren(e)
    THEN [e EXCEPT !.children = [i \in 1..Len(@) |-> ShallowCopy(@[i])]]
    ELSE e

\* the children of all layers of the section in document order: what
\* findall(".//mei:sb") walks
RECURSIVE Flatten(_)
Flatten(sec) ==
    IF sec = <<>> THEN <<>> ELSE sec[1].layer \o Flatten(Tail(sec))

\* the section with the children of its layers replaced, in document order,
\* by the elements of flat
RECURSIVE Unflatten(_, _)
Unflatten(sec, flat) ==
    IF sec = <<>> THEN <<>>
    ELSE <<[sec[1] EXCEPT !.layer = SubSeq(flat, 1, Len(sec[1].layer))]>>
             \o Unflatten(Tail(sec), SubSeq(flat, Len(sec[1].layer) + 1, Len(flat)))

\* fix_mei_coordinates, the update of the facs references of every <sb> of
\* the document
FixSectionSbRefs(zs, sec) == Unflatten(sec, FixSbRefs(zs, Flatten(sec)))

\* add_missing_sb_elements numbering the new elements from 1
AddMissingSbElements_FromOne(sec, order) ==
    IF order = <<>> \/ sec = <<>> THEN sec
    ELSE [sec EXCEPT ![1].layer =
              @ \o [i \in 1..Len(order) |-> Sb(ToString(i), Facs(order[i]))]]

\* add_missing_sb_elements: the section after the call, for the order in
\* which the set of unreferenced zone ids is enumerated; the new <sb> elements
\* go to the first layer of the document and are numbered from len(sbs) + 1,
\* sbs being the <sb> elements of the whole document
AddMissingSbElements(sec, order) ==
    IF order = <<>> \/ sec = <<>> THEN sec
    ELSE [sec EXCEPT ![1].layer =
              @ \o [i \in 1..Len(order) |->
                       Sb(ToString(Len(SbElements(Flatten(sec))) + i), Facs(order[i]))]]

----------------------------------------------------------------------------
(* fix_mei_coordinates.restructure_mei_staves                               *)

\* current_staff when the element at position p is reached: the n of the
\* last <sb> at or before p ("1" when that <sb> has no n), "1" before any <sb>
LabelAt(lay, p) ==
    LET sbs == {q \in 1..p : IsSb(lay[q])}
    IN  IF sbs = {} THEN "1"
        ELSE LET last == CHOOSE q \in sbs : \A r \in sbs : r <= q
             IN  IF lay[last].n = "" THEN "1" ELSE lay[last].n

\* the keys of staff_elements
StaffLabels(lay) == {LabelAt(lay, p) : p \in 1..Len(lay)}

\* staff_elements[label]: the clones of the elements grouped under a label,
\* in layer order
ElementsOfLabel(lay, label) ==
    LET idx == SelectSeq([p \in 1..Len(lay) |-> p], LAMBDA p : LabelAt(lay, p) = label)
    IN  [m \in 1..Len(idx) |-> ElementCopy(lay[idx[m]])]

\* sorted(staff_elements.keys(), key=int)
RECURSIVE SortedLabels(_)
SortedLabels(labels) ==
    IF labels = {} THEN <<>>
    ELSE LET least == CHOOSE l \in labels :
                          \A k \in labels : IntOfString(l) <= IntOfString(k)
         IN  <<least>> \o SortedLabels(labels \ {least})

\* the staffDef elements the call writes: one per staff of the jsomr file
FreshStaffDefs(num_staves) ==
    [i \in 1..num_staves |->
        StaffDef(ToString(i), "4", "neume", "C", "4", "m-staffdef-" \o ToString(i))]

\* the <pb> elements mei_root.find(".//mei:pb") can meet when the staff "1"
\* is created: those of the staffs left in the section and of the new staffs
\* created before it
PbsInTree(rest, lay) ==
    SelectSeq(Flatten(rest), IsPb)
        \o SelectSeq(lay, LAMBDA e : IsPb(e) /\ \E p \in 1..Len(lay) :
                              lay[p] = e /\ IntOfString(LabelAt(lay, p)) < 1)

\* the new <staff> for a label: its layer starts with a copy of the page
\* break for the label "1" when the tree holds a <pb>
NewStaff(label, rest, lay) ==
    Staff(label,
          (IF label = "1" /\ PbsInTree(rest, lay) # <<>>
           THEN <<ShallowCopy(PbsInTree(rest, lay)[1])>> ELSE <<>>)
              \o ElementsOfLabel(lay, label))

\* the section after the call: the first staff removed, one new staff per
\* label appended in the order of int(label); a section without a staff stops
\* the call before anything is written
RestructureSection(sec) ==
    IF sec = <<>> THEN sec
    ELSE LET lay == sec[1].layer
             order == SortedLabels(StaffLabels(lay))
         IN  Tail(sec) \o [m \in 1..Len(order) |-> NewStaff(order[m], Tail(sec), lay)]

\* the staffDefs after the call
RestructureStaffDefs(sec, sdefs, num_staves) ==
    IF sec = <<>> THEN sdefs ELSE FreshStaffDefs(num_staves)

----------------------------------------------------------------------------
(* fix_mei_coordinates.complete_staff_structure                             *)

\* f"zone-clef-{staff_num}-{clef_idx+1}"
ZoneClefId(staff_num, j) == "zone-clef-" \o staff_num \o "-" \o ToString(j)

\* clefs_by_staff[staff_num]: the jsomr glyphs of the staff whose name holds
\* clef.f, clef.c, clef.g or clef.not
ClefsOfStaff(jg, staff_num) ==
    SelectSeq(jg, LAMBDA g : /\ g.staff = staff_num
                             /\ \/ Contains(g.name, "clef.f")
                                \/ Contains(g.name, "clef.c")
                                \/ Contains(g.name, "clef.g")
                                \/ Contains(g.name, "clef.not"))

\* the shape of the <clef> written for a jsomr clef glyph
JsomrClefShape(name) ==
    IF Contains(name, "clef.f") THEN "F"
    ELSE IF Contains(name, "clef.g") THEN "G"
    ELSE "C"

\* the <clef> element written for the j-th clef glyph of a staff
JsomrClefElem(g, staff_num, j) ==
    [tag |-> "clef", n |-> "", facs |-> Facs(ZoneClefId(staff_num, j)),
     shape |-> JsomrClefShape(g.name), line |-> g.clef_pos, oct |-> g.octave,
     pname |-> g.note]

\* the zone written for the j-th clef glyph of a staff
JsomrClefZone(g, staff_num, j) ==
    Zone(ZoneClefId(staff_num, j), <<g.ulx, g.uly, g.ulx + g.ncols, g.uly + g.nrows>>)

\* the layer of the staff added for a missing staff number: the <sb> for the
\* zone id of the same position when there is one, a copy of the page break
\* for staff "1" when the document holds a <pb>, the clefs of the staff
AddedStaffLayer(sec, zone_ids, jg, i) ==
    LET staff_num == ToString(i)
        clefs == ClefsOfStaff(jg, staff_num)
    IN  (IF i <= Len(zone_ids) THEN <<Sb(staff_num, Facs(zone_ids[i]))>> ELSE <<>>)
        \o (IF staff_num = "1" /\ SelectSeq(Flatten(sec), IsPb) # <<>>
            THEN <<SelectSeq(Flatten(sec), IsPb)[1]>> ELSE <<>>)
        \o [j \in 1..Len(clefs) |-> JsomrClefElem(clefs[j], staff_num, j)]

\* the loop over the staff numbers i..N that adds the missing staffs;
\* existing is existing_staff_nums, zone_ids the ids read before the loop
RECURSIVE AddMissingStaffs(_, _, _, _, _, _)
AddMissingStaffs(sec, existing, zone_ids, jg, i, num_staves) ==
    IF i > num_staves THEN sec
    ELSE IF ToString(i) \in existing
         THEN AddMissingStaffs(sec, existing, zone_ids, jg, i + 1, num_staves)
    ELSE AddMissingStaffs(
             Append(sec, Staff(ToString(i), AddedStaffLayer(sec, zone_ids, jg, i))),
             existing, zone_ids, jg, i + 1, num_staves)

\* the clef zones appended to the surface for the staffs that are added
RECURSIVE AddedClefZones(_, _, _, _)
AddedClefZones(existing, jg, i, num_staves) ==
    IF i > num_staves THEN <<>>
    ELSE (IF ToString(i) \in existing THEN <<>>
          ELSE [j \in 1..Len(ClefsOfStaff(jg, ToString(i))) |->
                   JsomrClefZone(ClefsOfStaff(jg, ToString(i))[j], ToString(i), j)])
         \o AddedClefZones(existing, jg, i + 1, num_staves)

\* existing_staff_nums: the n of the staffs of the section that have one
ExistingStaffNums(sec) == {sec[k].n : k \in 1..Len(sec)} \ {""}

\* the section after complete_staff_structure
CompleteSection(zs, sec, jg, num_staves) ==
    AddMissingStaffs(sec, ExistingStaffNums(sec), ZoneIdList(zs), jg, 1, num_staves)

\* the zones after complete_staff_structure
CompleteZones(zs, sec, jg, num_staves) ==
    zs \o AddedClefZones(ExistingStaffNums(sec), jg, 1, num_staves)

\* the clef attributes of a staffDef filled in only where they are missing
WithClefDefaults(sd) ==
    [sd EXCEPT !.clef_shape = IF @ = "" THEN "C" ELSE @,
               !.clef_line = IF @ = "" THEN "4" ELSE @]

\* the staffDef loop for the staff numbers i..N: the first staffDef with the
\* staff's n gets the clef attributes it lacks; a staffDef is appended with
\* lines, notationtype and the clef attributes when none carries that n
RECURSIVE CompleteStaffDefs(_, _, _)
CompleteStaffDefs(sdefs, i, num_staves) ==
    IF i > num_staves THEN sdefs
    ELSE LET hits == {k \in 1..Len(sdefs) : sdefs[k].n = ToString(i)}
         IN  IF hits = {}
             THEN CompleteStaffDefs(
                      Append(sdefs, WithClefDefaults(
                                        StaffDef(ToString(i), "4", "neume", "", "",
                                                 "m-staffdef-" \o ToString(i)))),
                      i + 1, num_staves)
             ELSE LET first == CHOOSE k \in hits : \A h \in hits : k <= h
                  IN  CompleteStaffDefs([sdefs EXCEPT ![first] = WithClefDefaults(@)],
                                        i + 1, num_staves)

----------------------------------------------------------------------------
(* The state machine of the structural repairer: a document with a section  *)
(* of staffs, the geometric record, and the functions of                    *)
(* fix_mei_coordinates.py applied to it in any order.                       *)

MaxRepairOps == 2

\* a document: the zones of the surface, the staffs of the section and the
\* staffDefs of the staffGrp
Doc(zs, sec, sdefs) == [zones |-> zs, section |-> sec, staffDefs |-> sdefs]

\* the detections whose reconcile pass made one of the starting documents
ReconciledFrom ==
    [i \in 1..2 |-> ParseGlyph(<<Detection(20, 120, "clef.c"),
                                 Detection(60, 20, "neume.punctum")>>[i])]

\* the starting documents
RepairDocs ==
    { \* three regions, two structural markers that both reference the second
      Doc(<<Zone("r1", <<1, 1, 9, 9>>), Zone("r2", <<1, 11, 9, 19>>),
            Zone("r3", <<1, 21, 9, 29>>)>>,
          <<Staff("1", <<Sb("1", Facs("r2")), Sb("2", Facs("r2"))>>)>>,
          <<StaffDef("1", "4", "neume", "C", "4", "sd1")>>),
      \* placeholder zones, one without an id; a staffDef with n only
      Doc(<<Zone("z1", ZeroBox), Zone(NoId, ZeroBox), Zone("z2", ZeroBox)>>,
          <<Staff("1", <<Elem("neume", "", Facs("z1"), ""), Sb("1", Facs("z1")),
                         Sb("2", Facs("z1"))>>)>>,
          <<StaffDef("1", "", "", "", "", "")>>),
      \* the result of a reconcile pass for two staves, a clef and a neume
      Doc(IntegrateZones(<<>>, StavesOf(2), ReconciledFrom),
          <<Staff("1", IntegrateLayer(<<>>, <<>>, StavesOf(2), ReconciledFrom))>>,
          <<>>),
      \* two staffs already, a page break in the second; staffDefs of five lines
      Doc(<<Zone("r1", <<1, 1, 9, 9>>), Zone("r2", <<1, 11, 9, 19>>)>>,
          <<Staff("1", <<Sb("1", Facs("r1")), Elem("neume", "", Facs("r1"), "")>>),
            Staff("2", <<Pb, Sb("2", Facs("r2"))>>)>>,
          <<StaffDef("1", "5", "cmn", "G", "2", "sd1"),
            StaffDef("2", "5", "cmn", "", "", "sd2")>>),
      \* a flat sequence that starts before any marker and names staff 2 first
      Doc(<<Zone("r1", <<1, 1, 9, 9>>), Zone("r2", ZeroBox)>>,
          <<Staff("1", <<Elem("neume", "", Facs("r1"), ""), Sb("2", Facs("r2")),
                         Elem("clef", "", Facs("r2"), "C"), Sb("1", Facs("r1")),
                         Elem("neume", "", Facs("r2"), "")>>)>>,
          <<StaffDef("2", "4", "neume", "F", "3", "sd2")>>),
      \* a syllable that holds a neume with two components
      Doc(<<Zone("r1", <<1, 1, 9, 9>>)>>,
          <<Staff("1", <<Sb("1", Facs("r1")),
                         WithChildren(Elem("syllable", "", NoFacs, ""),
                             <<WithChildren(Elem("neume", "", Facs("r1"), ""),
                                   <<Elem("nc", "", NoFacs, ""),
                                     Elem("nc", "", NoFacs, "")>>)>>)>>)>>,
          <<StaffDef("1", "4", "neume", "C", "4", "sd1")>>),
      \* no staff in the section
      Doc(<<Zone("r1", ZeroBox)>>, <<>>, <<>>) }

\* a glyph entry of the jsomr file as glyph_to_jsomr_integration writes it
JsomrEntry(staff, name, ulx, uly) ==
    [staff |-> staff, name |-> name, ulx |-> ulx, uly |-> uly, ncols |-> 10,
     nrows |-> 10, note |-> "c", octave |-> "4",
     clef_pos |-> IF Contains(name, "clef") THEN "4" ELSE "None"]

\* the "glyphs" lists of the jsomr files
JsomrGlyphLists ==
    { <<>>,
      <<JsomrEntry("1", "neume.punctum", 60, 20), JsomrEntry("2", "clef.c", 20, 120)>> }

\* the glyph XML files of the repair runs
RepairDetectionLists == { <<>>, <<Detection(60, 20, "neume.punctum")>> }

InitRepair ==
    /\ \E d \in RepairDocs :
           zones = d.zones /\ section = d.section /\ staffDefs = d.staffDefs
    /\ staves \in {StavesOf(n) : n \in 0..MaxStaves}
    /\ \E ds \in RepairDetectionLists :
           glyphs = [i \in 1..Len(ds) |-> ParseGlyph(ds[i])]
    /\ jGlyphs \in JsomrGlyphLists
    /\ layer = <<>>
    /\ hist = <<>>
    /\ AsgIdle /\ PitIdle /\ CluIdle /\ JsoIdle /\ MainIdle

\* the document of the current state
CurDoc == Doc(zones, section, staffDefs)

\* the names of the four modifying checks, in the order main runs them
RepairOps == <<"fix", "add_missing", "restructure", "complete">>

\* the documents one check can write for the document d, with the geometry,
\* the glyph XML file and the jsomr glyphs of the run; add_missing_sb_elements
\* walks a Python set, so each walk order gives one document. A check that
\* returns before its write (add_missing_sb_elements with every region
\* referenced, restructure_mei_staves without a staff) leaves the document as
\* it was
RepairStep(op, d) ==
    CASE op = "fix" ->
           { Doc(FixZones(d.zones, staves, glyphs),
                 FixSectionSbRefs(d.zones, d.section), d.staffDefs) }
      [] op = "add_missing" ->
           { Doc(d.zones, AddMissingSbElements(d.section, order), d.staffDefs) :
               order \in Orderings(UnreferencedZones(d.zones, Flatten(d.section))) }
      [] op = "restructure" ->
           { Doc(d.zones, RestructureSection(d.section),
                 RestructureStaffDefs(d.section, d.staffDefs, Len(staves))) }
      [] op = "complete" ->
           { Doc(CompleteZones(d.zones, d.section, jGlyphs, Len(staves)),
                 CompleteSection(d.zones, d.section, jGlyphs, Len(staves)),
                 CompleteStaffDefs(d.staffDefs, 1, Len(staves))) }

\* one check of the repairer run on the current document
RepairRun(op) ==
    /\ Len(hist) < MaxRepairOps
    /\ \E e \in RepairStep(op, CurDoc) :
           zones' = e.zones /\ section' = e.section /\ staffDefs' = e.staffDefs
    /\ hist' = Append(hist, op)
    /\ UNCHANGED <<layer, staves, glyphs, jGlyphs, asgVars, pitVars, cluVars, jsoVars, mainVars>>

\* fix_mei_coordinates on a document with a section of staffs
RepairFix == RepairRun("fix")

\* add_missing_sb_elements on a document with a section of staffs
RepairAddMissing == RepairRun("add_missing")

\* restructure_mei_staves
RepairRestructure == RepairRun("restructure")

\* complete_staff_structure
RepairComplete == RepairRun("complete")

NextRepair == RepairFix \/ RepairAddMissing \/ RepairRestructure \/ RepairComplete

SpecRepair == InitRepair /\ [][NextRepair]_vars

----------------------------------------------------------------------------
(* Properties of the structural repairer.                                   *)

\* the ids of the regions that no structural marker of the document references
OrphanRegions(zs, sec) ==
    {zs[i].id : i \in {j \in 1..Len(zs) : zs[j].id # NoId}}
        \ {e.facs[2] : e \in {f \in Range(Flatten(sec)) : f.tag = "sb" /\ f.facs # <<>>}}

\* the number of structural markers of the document
MarkerCount(sec) == Cardinality({p \in 1..Len(Flatten(sec)) : Flatten(sec)[p].tag = "sb"})

----------------------------------------------------------------------------
(* Further properties of the assigners.                                     *)

\* four times the score of the claim: |glyph center y - region center y|,
\* halved when region top <= glyph center y <= region bottom
WeightedDistance4(top, bottom, st) ==
    LET twiceDistance == IF top + bottom >= 2 * st.uly + st.nrows
                         THEN (top + bottom) - (2 * st.uly + st.nrows)
                         ELSE (2 * st.uly + st.nrows) - (top + bottom)
    IN  IF 2 * st.uly <= top + bottom /\ top + bottom <= 2 * (st.uly + st.nrows)
        THEN twiceDistance
        ELSE 2 * twiceDistance

----------------------------------------------------------------------------
(* Further properties of the clusterer.                                     *)

\* the y coordinates of a polygon's points
PolygonYs(poly) == {poly[i][2] : i \in 1..Len(poly)}

\* the top-most y of a non-empty polygon
TopY(poly) == CHOOSE y \in PolygonYs(poly) : \A z \in PolygonYs(poly) : y <= z

\* twice the vertical center of a non-empty polygon: top-most plus bottom-most y
TwiceCenterY(poly) ==
    TopY(poly) + (CHOOSE y \in PolygonYs(poly) : \A z \in PolygonYs(poly) : y >= z)

\* the points of the first j polygons of a group, one after the other
RECURSIVE PointsOfFirst(_, _)
PointsOfFirst(group, j) ==
    IF j = 0 THEN <<>> ELSE PointsOfFirst(group, j - 1) \o group[j]

\* the sum of the y coordinates of a list of points
RECURSIVE TotalY(_)
TotalY(points) == IF points = <<>> THEN 0 ELSE points[1][2] + TotalY(Tail(points))

\* the vertical center of poly is less than tol away from the mean y of the
\* points: |center - mean| < tol, multiplied out by twice the point count
WithinTolerance(poly, points, tol) ==
    LET d == TwiceCenterY(poly) * Len(points) - 2 * TotalY(points)
    IN  d < 2 * Len(points) * tol /\ 0 - d < 2 * Len(points) * tol

\* the polygons of all groups, one group after the other
RECURSIVE GroupsInOrder(_)
GroupsInOrder(groups) ==
    IF groups = <<>> THEN <<>> ELSE groups[1] \o GroupsInOrder(Tail(groups))

\* the number of positions of a list that hold the value v
Occurrences(list, v) == Cardinality({i \in 1..Len(list) : list[i] = v})

----------------------------------------------------------------------------
(* Further properties of the reference reconciler.                          *)

\* the structural markers of a reading-order sequence, in order
MarkersOf(lay) == SelectSeq(lay, LAMBDA e : e.tag = "sb")

\* one marker per region id, in order: the i-th numbered i and referencing
\* the i-th id
MarkerPerRegion(ids) ==
    [i \in 1..Len(ids) |->
        [tag |-> "sb", n |-> ToString(i), facs |-> <<"#", ids[i]>>, shape |-> ""]]

GeometrySources ==
    [i \in 1..Len(staves) |->
        <<staves[i].ulx, staves[i].uly, staves[i].ulx + staves[i].ncols,
          staves[i].uly + staves[i].nrows>>]
    \o [i \in 1..Len(glyphs) |->
        <<glyphs[i].ulx, glyphs[i].uly, glyphs[i].lrx, glyphs[i].lry>>]

\* the number of all-zero regions among the first i regions
EmptyRank(zs, i) == Cardinality({j \in 1..i : zs[j].box = <<0, 0, 0, 0>>})

C17_ReconcilerIdempotent ==
    [][\A op \in {"fix", "integrate"} :
           (hist # <<>> /\ hist[Len(hist)] = op /\ StepOf(op))
               => (zones' = zones /\ layer' = layer)]_vars


\* the documents that running the check a and then the check b can write
Compose(a, b, d) == UNION { RepairStep(b, e) : e \in RepairStep(a, d) }

\* C18: the repairer's modifying checks (empty-region fill with marker
\* repointing, missing-marker insertion, staff-splitting, staff-definition
\* completion) are composable in any order: for any two of them and any
\* document, running them in either order writes the same document
C18_ChecksCommute ==
    \A a, b \in Range(RepairOps) :
        Compose(a, b, CurDoc) = Compose(b, a, CurDoc)


\* the staff named by the most recent structural marker at or before the
\* position p of a flat sequence, "1" when no marker precedes it
NamedStaff(lay, p) ==
    IF \A q \in 1..p : ~IsSb(lay[q]) THEN "1"
    ELSE lay[CHOOSE q \in 1..p : IsSb(lay[q]) /\ \A r \in (q + 1)..p : ~IsSb(lay[r])].n

\* the elements of a flat sequence that belong to the staff n, in their order
ElementsNaming(lay, n) ==
    LET at == SelectSeq([p \in 1..Len(lay) |-> p], LAMBDA p : NamedStaff(lay, p) = n)
    IN  [m \in 1..Len(at) |-> lay[at[m]]]

\* every element of the flat sequence is in a container of the staff it
\* belongs to, and every container holds the elements of its staff in their
\* order
SplitByMarkers(lay, sec) ==
    /\ \A p \in 1..Len(lay) :
           \E c \in 1..Len(sec) :
               /\ sec[c].n = NamedStaff(lay, p)
               /\ lay[p] \in Range(sec[c].layer)
    /\ \A c \in 1..Len(sec) : sec[c].layer = ElementsNaming(lay, sec[c].n)

\* C19: restructure_mei_staves puts every element of the flat sequence into
\* the container of the staff named by the most recent structural marker at
\* or before it, and into staff "1" when no marker precedes it; a marker
\* belongs to the staff it names; the elements keep their relative order
\* inside a container; and for a geometry of N staves N containers result
C19_SplitIntoNContainers ==
    [][(StepOf("restructure") /\ Len(section) = 1) =>
           /\ SplitByMarkers(section[1].layer, section')
           /\ Len(section') = Len(staves)]_vars


\* the attributes a staff definition is required to carry
RequiredAttributes == {"lines", "notationtype", "clef_shape", "clef_line"}

\* the staff definition sd carries every required attribute
CarriesRequired(sd) == \A f \in RequiredAttributes : sd[f] # ""

\* every attribute value of the staff definitions before is the value of the
\* same staff definition after
ValuesKept(before, after) ==
    /\ Len(after) >= Len(before)
    /\ \A j \in 1..Len(before) :
           \A f \in DOMAIN before[j] :
               before[j][f] # "" => after[j][f] = before[j][f]

\* C20: after complete_staff_structure for a geometry of N staves, every
\* staff index 1..N has a staff definition that carries the line count, the
\* notation type, the clef shape and the clef position, and every attribute
\* value a staff definition had before the call is unchanged
C20_StaffDefsCompleted ==
    [][StepOf("complete") =>
           /\ \A i \in 1..Len(staves) :
                  \E j \in 1..Len(staffDefs') :
                      staffDefs'[j].n = ToString(i) /\ CarriesRequired(staffDefs'[j])
           /\ ValuesKept(staffDefs, staffDefs')]_vars


----------------------------------------------------------------------------
(* Further properties of the pitch estimator.                               *)

\* the curves (0-based) no other curve is nearer to the glyph than
NearestCurves(gl, lines) ==
    {i \in 0..(Len(lines) - 1) :
        \A j \in 1..Len(lines) : ~Nearer(gl, lines, j, i + 1)}

\* diatonic steps from the base pitch to the pitch the claim gives a glyph
\* whose nearest curve is i: i on a curve, one step past the edge curve for a
\* glyph beyond the topmost or the bottommost curve
ReferenceSteps(gl, lines, i) ==
    IF i = 0 /\ AboveLine(gl, lines[1]) THEN 0 - 1
    ELSE IF i = Len(lines) - 1 /\ BelowLine(gl, lines[Len(lines)]) THEN i + 1
    ELSE i

\* C21: estimate_pitch_from_position equals the reference diatonic mapping
\* for every glyph position: a glyph nearest to curve i (i in 0..7) gets the
\* pitch i diatonic steps from the base note and octave, the octave changing
\* on each wrap of the 7-letter cycle, and a glyph beyond the topmost or the
\* bottommost curve gets the pitch one diatonic step past the pitch of that
\* edge curve
C21_ReferenceDiatonicMapping ==
    \A e \in pSeen :
        \E i \in NearestCurves(e, pStaff.line_positions) :
            PitchRank(e.pitch) =
                PitchRank(<<BaseNote, ToString(BaseOctave)>>)
                    + ReferenceSteps(e, pStaff.line_positions, i)


----------------------------------------------------------------------------
(* polygons_to_jsomr.convert_grouped_to_jsomr                               *)

\* int(a / b) for b > 0: truncation toward zero
TruncDiv(a, b) == IF a >= 0 THEN a \div b ELSE 0 - ((0 - a) \div b)

\* all_group_points: the points of the polygons of a group, in order
RECURSIVE AllGroupPoints(_)
AllGroupPoints(group) ==
    IF group = <<>> THEN <<>> ELSE group[1] \o AllGroupPoints(Tail(group))

\* min and max of a coordinate (c = 1 for x, 2 for y) over a list of points
MinCoord(points, c) ==
    CHOOSE v \in {points[i][c] : i \in 1..Len(points)} :
        \A i \in 1..Len(points) : v <= points[i][c]

MaxCoord(points, c) ==
    CHOOSE v \in {points[i][c] : i \in 1..Len(points)} :
        \A i \in 1..Len(points) : v >= points[i][c]

\* the group is skipped: empty, without a point, or with a bounding box of
\* no width or no height
GroupSkipped(group) ==
    \/ group = <<>>
    \/ AllGroupPoints(group) = <<>>
    \/ MaxCoord(AllGroupPoints(group), 1) <= MinCoord(AllGroupPoints(group), 1)
    \/ MaxCoord(AllGroupPoints(group), 2) <= MinCoord(AllGroupPoints(group), 2)

\* num_points_per_line
NumPointsPerLine == 100

\* the candidate points of line j (0..7): those whose y is within
\* total_staff_height / 8 * 1.5 of the anchor min_y + j * height / 7; the
\* comparison is scaled by 112
LineCandidates(points, j) ==
    LET min_y == MinCoord(points, 2)
        height == MaxCoord(points, 2) - min_y
    IN  SelectSeq(points, LAMBDA pt :
            Abs(112 * (pt[2] - min_y) - 16 * j * height) <= 21 * height)

\* the candidates sorted by x with one point kept per x: the first of the
\* candidates that have this x (argsort leaves equal keys in input order for
\* the short arrays of the inputs used here)
UniquePoints(cands) ==
    LET firsts == {i \in 1..Len(cands) : \A k \in 1..(i - 1) : cands[k][1] # cands[i][1]}
        rank(i) == Cardinality({k \in firsts : cands[k][1] < cands[i][1]}) + 1
    IN  [r \in 1..Cardinality(firsts) |-> cands[CHOOSE i \in firsts : rank(i) = r]]

\* int(np.interp(x, xp, fp)) for the abscissa x99 / 99: the first ordinate
\* left of the points, the last one right of them, linear in between
InterpAt(x99, uniq) ==
    IF x99 <= 99 * uniq[1][1] THEN uniq[1][2]
    ELSE IF x99 >= 99 * uniq[Len(uniq)][1] THEN uniq[Len(uniq)][2]
    ELSE LET s == CHOOSE t \in 1..(Len(uniq) - 1) :
                      99 * uniq[t][1] <= x99 /\ x99 < 99 * uniq[t + 1][1]
             den == 99 * (uniq[s + 1][1] - uniq[s][1])
         IN  TruncDiv(uniq[s][2] * den + (x99 - 99 * uniq[s][1]) * (uniq[s + 1][2] - uniq[s][2]),
                      den)

\* line j of a staff group: 100 points over x_intervals = linspace(min_x,
\* max_x, 100), interpolated through the candidate points when two of them
\* with different x exist, at the height int(min_y + j * height / 7) otherwise
LineOfGroup(points, j) ==
    LET min_x == MinCoord(points, 1)
        width == MaxCoord(points, 1) - min_x
        min_y == MinCoord(points, 2)
        height == MaxCoord(points, 2) - min_y
        cands == LineCandidates(points, j)
        uniq == UniquePoints(cands)
        x99(k) == 99 * min_x + (k - 1) * width
    IN  [k \in 1..NumPointsPerLine |->
            <<TruncDiv(x99(k), 99),
              IF Len(cands) >= 2 /\ Len(uniq) >= 2
              THEN InterpAt(x99(k), uniq)
              ELSE TruncDiv(7 * min_y + j * height, 7)>>]

\* the staff entry of group i (1-based): staff_no is the place of the group
\* in the grouped list
StaffOfGroup(group, i) ==
    LET points == AllGroupPoints(group)
    IN  [staff_no |-> i,
         ulx |-> MinCoord(points, 1), uly |-> MinCoord(points, 2),
         ncols |-> MaxCoord(points, 1) - MinCoord(points, 1),
         nrows |-> MaxCoord(points, 2) - MinCoord(points, 2),
         num_lines |-> 4,
         line_positions |-> [j \in 1..8 |-> LineOfGroup(points, j - 1)]]

\* the placeholder glyph appended for group i
PlaceholderGlyph(group, i) ==
    LET points == AllGroupPoints(group)
        min_x == MinCoord(points, 1)
        width == MaxCoord(points, 1) - min_x
        min_y == MinCoord(points, 2)
        height == MaxCoord(points, 2) - min_y
    IN  [staff |-> i, offset |-> TruncDiv(10 * min_x + width, 10), strt_pos |-> "1",
         note |-> "c", octave |-> "4", clef_pos |-> "None", clef |-> "None",
         ulx |-> TruncDiv(10 * min_x + width, 10),
         uly |-> TruncDiv(2 * min_y + height - 50, 2),
         ncols |-> 50, nrows |-> 50, name |-> "note.black"]

\* jsomr_output after the groups i.. of the list, appended to what the groups
\* before them gave
RECURSIVE ConvertLoop(_, _, _)
ConvertLoop(groups, i, out) ==
    IF i > Len(groups) THEN out
    ELSE IF GroupSkipped(groups[i]) THEN ConvertLoop(groups, i + 1, out)
    ELSE ConvertLoop(groups, i + 1,
                     [staves |-> Append(out.staves, StaffOfGroup(groups[i], i)),
                      glyphs |-> Append(out.glyphs, PlaceholderGlyph(groups[i], i))])

ConvertGroupedToJsomr(groups) == ConvertLoop(groups, 1, NoJsomr)

----------------------------------------------------------------------------
(* glyph_to_jsomr_integration.update_glyph_pitch_info and                   *)
(* integrate_glyphs_with_jsomr                                              *)

\* any(keyword in name.lower() for keyword in ["clef", "custos", "accid",
\* "divLine"])
PitchExempt(name) ==
    \E keyword \in {"clef", "custos", "accid", "divLine"} : Contains(Lower(name), keyword)

\* the glyph entry after the loop body of update_glyph_pitch_info
UpdateGlyph(g, stv) ==
    IF g.staff - 1 < Len(stv)
    THEN IF PitchExempt(g.name)
         THEN IF Contains(Lower(g.name), "clef")
              THEN [g EXCEPT !.clef = "C", !.clef_pos = "4"]
              ELSE g
         ELSE LET pitch == EstimatePitchFromPosition(g, stv[g.staff])
              IN  [g EXCEPT !.note = pitch[1], !.octave = pitch[2]]
    ELSE g

UpdateGlyphPitchInfo(gs, stv) == [i \in 1..Len(gs) |-> UpdateGlyph(gs[i], stv)]

\* jsomr_data after integrate_glyphs_with_jsomr: the glyphs are replaced by
\* the detections of the XML file, assigned and with their pitch
IntegrateGlyphsWithJsomr(data, ds) ==
    [staves |-> data.staves,
     glyphs |-> UpdateGlyphPitchInfo(AssignJsomrGlyphs(ds, data.staves), data.staves)]


----------------------------------------------------------------------------
(* The state machine of the geometric record: staff polygons are grouped    *)
(* and converted to jsomr staves, then the glyph detections of an XML file  *)
(* are integrated into the jsomr data.                                      *)

MaxJsoGlyphs == 1
MaxJsoOps == 2

\* a staff-line polygon: a line from the left to the right edge
LinePolygon(y_left, y_right) == <<<<0, y_left>>, <<99, y_right>>>>

\* the polygon lists of the input files
JsoPolygonLists ==
    { <<>>,
      <<LinePolygon(10, 10), LinePolygon(40, 40)>>,
      <<LinePolygon(10, 10), LinePolygon(40, 40), LinePolygon(200, 200)>>,
      <<LinePolygon(10, 10), LinePolygon(40, 40), LinePolygon(200, 200),
        LinePolygon(400, 400), LinePolygon(440, 442)>>,
      <<LinePolygon(200, 200), LinePolygon(400, 400), LinePolygon(440, 442)>>,
      <<LinePolygon(10, 10), LinePolygon(40, 40), LinePolygon(400, 400),
        LinePolygon(440, 442)>>,
      <<<<<<0, 10>>, <<99, 10>>, <<99, 45>>, <<0, 45>>>>>> }

\* the glyph detections of the XML files
JsoDetections ==
    {[ulx |-> 5, uly |-> y, ncols |-> 10, nrows |-> 4, name |-> name] :
        y \in {0, 16, 416},
        name \in {"neume.punctum", "clef.c", "custos", "accid", "divLine", "skip.edge"}}

\* one step of the record: the operation and the detections it read
JsoStep(op, ds) == [op |-> op, xml |-> ds]

InitJsomr ==
    /\ \E polys \in JsoPolygonLists : jsGroups = GroupPolygonsVertically(polys, 50)
    /\ jsData = NoJsomr
    /\ jsHist = <<>>
    /\ DocIdle /\ AsgIdle /\ PitIdle /\ CluIdle /\ MainIdle

\* convert_grouped_to_jsomr on the grouped polygons
ConvertGroups ==
    /\ jsHist = <<>>
    /\ jsData' = ConvertGroupedToJsomr(jsGroups)
    /\ jsHist' = <<JsoStep("convert", <<>>)>>
    /\ UNCHANGED <<jsGroups, docVars, asgVars, pitVars, cluVars, mainVars>>

\* integrate_glyphs_with_jsomr on the converted record and an XML file
IntegrateGlyphs ==
    /\ jsHist # <<>>
    /\ Len(jsHist) < MaxJsoOps
    /\ \E ds \in SeqsUpTo(JsoDetections, MaxJsoGlyphs) :
           /\ jsData' = IntegrateGlyphsWithJsomr(jsData, ds)
           /\ jsHist' = Append(jsHist, JsoStep("integrate", ds))
    /\ UNCHANGED <<jsGroups, docVars, asgVars, pitVars, cluVars, mainVars>>

NextJsomr == ConvertGroups \/ IntegrateGlyphs

SpecJsomr == InitJsomr /\ [][NextJsomr]_vars

\* the step just taken integrated the detections ds
IntegratedStep(ds) == jsHist' = Append(jsHist, JsoStep("integrate", ds))

\* the glyph classes the claim exempts from the pitch computation
ExemptClassNames == {"clef.c", "clef.f", "custos", "accid", "divLine"}

ClefClassNames == {"clef.c", "clef.f"}

\* C22: update_glyph_pitch_info leaves the note and the octave unchanged for
\* every glyph whose class is a clef, custos, accidental or divider, and
\* computes them from the position for every other glyph; a clef glyph
\* additionally gets the fixed default clef role "C" and position "4"
C22_ExemptClassesKeepPitch ==
    [][\A ds \in SeqsUpTo(JsoDetections, MaxJsoGlyphs) :
           IntegratedStep(ds) =>
               LET before == AssignJsomrGlyphs(ds, jsData.staves)
                   after == jsData'.glyphs
               IN  /\ Len(after) = Len(before)
                   /\ \A i \in 1..Len(before) :
                          /\ before[i].name \in ExemptClassNames =>
                                 /\ after[i].note = before[i].note
                                 /\ after[i].octave = before[i].octave
                          /\ before[i].name \notin ExemptClassNames =>
                                 <<after[i].note, after[i].octave>> =
                                     EstimatePitchFromPosition(
                                         before[i], jsData.staves[before[i].staff])
                          /\ before[i].name \in ClefClassNames =>
                                 after[i].clef = "C" /\ after[i].clef_pos = "4"]_vars


\* C23: in the enriched geometric record every glyph's staff number k
\* identifies an existing staff region: 1 <= k <= number of staves and the
\* staff stored at position k has staff_no = k, also when the converter
\* skipped degenerate polygon groups and when the staff list is empty
C23_GlyphStaffExists ==
    \A i \in 1..Len(jsData.glyphs) :
        LET k == jsData.glyphs[i].staff
        IN  /\ 1 <= k
            /\ k <= Len(jsData.staves)
            /\ jsData.staves[k].staff_no = k


----------------------------------------------------------------------------
(* Further properties of the document state machine.                        *)

\* the box has positive width and height
PositiveArea(box) == box[3] > box[1] /\ box[4] > box[2]

\* C24: after any sequence of create_mei_zones_from_staves and
\* fix_mei_coordinates with staves of positive width and height and arbitrary
\* glyph detections (ncols, nrows >= 0), every region whose box is not the
\* all-zero placeholder has positive area (lrx > ulx and lry > uly)
C24_NonPlaceholderPositiveArea ==
    Range(hist) \subseteq {"sync", "fix"} =>
        \A i \in 1..Len(zones) : zones[i].box # ZeroBox => PositiveArea(zones[i].box)


\* the ids of the zones one reconcile pass creates for the glyphs of staff k
GlyphIdsOfStaff(sg, k) == {ZoneGlyphId(k, j) : j \in 1..Len(sg)}

\* the elements of a layer that are no structural markers and reference one
\* of the ids, in layer order
ElementsReferencing(lay, ids) ==
    SelectSeq(lay, LAMBDA e : ~IsSb(e) /\ IsRef(e.facs) /\ RefTarget(e.facs) \in ids)

\* the left x coordinate of the glyph of staff k whose zone the element references
LeftXOf(e, sg, k) ==
    sg[CHOOSE j \in 1..Len(sg) : ZoneGlyphId(k, j) = RefTarget(e.facs)].ulx

----------------------------------------------------------------------------
(* fix_mei_coordinates.add_clef_elements and fix_mei_coordinates.main: the  *)
(* requested steps run one after the other on the files of the run.         *)

\* a file holding the document d
File(d) == [exists |-> TRUE, doc |-> d]

\* list(layer).index(sb) + 1 for sb_map[n]: sb_map keeps, for each n, the last
\* <sb> of the whole document that carries n and a facs reference; layer is
\* the first layer of the document; 0 when there is no such <sb> or when it
\* is not a child of that layer
MappedSbIndex(sec, n) ==
    LET flat == Flatten(sec)
        cands == {p \in 1..Len(flat) :
                     IsSb(flat[p]) /\ flat[p].n = n /\ IsRef(flat[p].facs)}
        last == CHOOSE p \in cands : \A q \in cands : q <= p
    IN  IF cands = {} THEN 0
        ELSE IF last > Len(sec[1].layer) THEN 0
        ELSE last

\* the keys of clefs_by_staff
ClefStaffNums(jg) ==
    {jg[i].staff : i \in {j \in 1..Len(jg) : ClefsOfStaff(<<jg[j]>>, jg[j].staff) # <<>>}}

\* add_clef_elements: the file it writes for the document d. Without a layer
\* it returns before the write. For the first clef of a staff whose <sb> is
\* in the layer it appends a zone to the tree in memory and then evaluates
\* new_layer, a name the function never binds: the NameError is caught by the
\* handler of the function, which prints it and returns without a write.
\* Otherwise the document is written as it was read
AddClefElements(d, jg) ==
    IF d.section = <<>> THEN NoFile
    ELSE IF \E n \in ClefStaffNums(jg) : MappedSbIndex(d.section, n) # 0 THEN NoFile
    ELSE File(d)

\* the modifying steps of main in the order of their blocks
MainSteps == <<"fix", "add_missing", "add_clefs", "restructure", "complete">>

\* the files one step can write for the document d it has read; NoFile when
\* the step returns without a write
StepOutcomes(op, d) ==
    CASE op = "add_missing" ->
           IF d.section = <<>> \/ UnreferencedZones(d.zones, Flatten(d.section)) = {}
           THEN {NoFile}
           ELSE {File(e) : e \in RepairStep(op, d)}
      [] op = "add_clefs" -> {AddClefElements(d, jGlyphs)}
      [] op = "restructure" ->
           IF d.section = <<>> THEN {NoFile}
           ELSE {File(e) : e \in RepairStep(op, d)}
      [] OTHER -> {File(e) : e \in RepairStep(op, d)}

\* the files a step can write when it is handed current_file: parsing a file
\* that does not exist raises, and the handler of the step returns without a
\* write
ReadAndRun(op) ==
    IF files[current_file].exists
    THEN StepOutcomes(op, files[current_file].doc)
    ELSE {NoFile}

\* the files after a step wrote out (or nothing) to the file named target
Written(target, out) ==
    IF out.exists THEN [files EXCEPT ![target] = out] ELSE files

InitMain ==
    /\ \E d \in RepairDocs : files = [NoFiles EXCEPT !.mei = File(d)]
    /\ staves \in {StavesOf(n) : n \in 0..MaxStaves}
    /\ \E ds \in RepairDetectionLists :
           glyphs = [i \in 1..Len(ds) |-> ParseGlyph(ds[i])]
    /\ jGlyphs \in JsomrGlyphLists
    /\ args \in SUBSET Range(MainSteps)
    /\ current_file = "mei" /\ temp_file = "temp" /\ temp_file2 = "temp2"
    /\ pc = 1
    /\ zones = <<>> /\ layer = <<>> /\ hist = <<>>
    /\ section = <<>> /\ staffDefs = <<>>
    /\ AsgIdle /\ PitIdle /\ CluIdle /\ JsoIdle

\* Step 1 of main: fix_mei_coordinates unless --skip-fix is given
MainFix ==
    /\ pc = 1
    /\ pc' = 2
    /\ IF "fix" \in args
       THEN /\ \E out \in ReadAndRun("fix") : files' = Written(temp_file, out)
            /\ current_file' = temp_file
            /\ UNCHANGED <<temp_file, temp_file2>>
       ELSE UNCHANGED <<files, current_file, temp_file, temp_file2>>
    /\ UNCHANGED <<args, docVars, asgVars, pitVars, cluVars, jsoVars>>

\* one of the blocks of steps 2 to 5: the step writes temp_file2, current_file
\* becomes temp_file2 and the two names are swapped
MainBlock(i) ==
    /\ pc = i
    /\ pc' = i + 1
    /\ IF MainSteps[i] \in args
       THEN /\ \E out \in ReadAndRun(MainSteps[i]) : files' = Written(temp_file2, out)
            /\ current_file' = temp_file2
            /\ temp_file' = temp_file2
            /\ temp_file2' = temp_file
       ELSE UNCHANGED <<files, current_file, temp_file, temp_file2>>
    /\ UNCHANGED <<args, docVars, asgVars, pitVars, cluVars, jsoVars>>

\* Step 2 of main
MainAddMissing == MainBlock(2)

\* Step 3 of main
MainAddClefs == MainBlock(3)

\* Step 4 of main
MainRestructure == MainBlock(4)

\* Step 5 of main
MainComplete == MainBlock(5)

\* the end of main: when a modification was requested, the copy of
\* current_file to the output (skipped with a message when current_file cannot
\* be opened), then the removal of the two temporary files
MainFinish ==
    /\ pc = 6
    /\ pc' = 7
    /\ LET copied == IF args # {} /\ files[current_file].exists
                     THEN [files EXCEPT !.output = files[current_file]]
                     ELSE files
       IN  files' = [copied EXCEPT !.temp = NoFile, !.temp2 = NoFile]
    /\ UNCHANGED <<current_file, temp_file, temp_file2, args,
                   docVars, asgVars, pitVars, cluVars, jsoVars>>

NextMain ==
    \/ MainFix \/ MainAddMissing \/ MainAddClefs \/ MainRestructure
    \/ MainComplete \/ MainFinish

SpecMain == InitMain /\ [][NextMain]_vars


----------------------------------------------------------------------------
(* Properties of add_clef_elements and of main.                             *)

\* the step block i of main has just run the step op on an existing file
MainStepRan(i, op) ==
    pc = i /\ pc' = i + 1 /\ op \in args /\ files[current_file].exists

\* the positions in the layer lay of the elements referencing the region id
PositionsReferencing(lay, id) ==
    {p \in 1..Len(lay) : ~IsSb(lay[p]) /\ lay[p].facs = Facs(id)}

\* C26: add_clef_elements, for every clef glyph of the geometric record that
\* is assigned to a staff whose structural marker is in the layer, creates one
\* new region with the clef's box and one clef element referencing that
\* region, places the clef element after that staff's marker in the layer, and
\* saves the updated document to the output
C26_ClefRegionAndElementSaved ==
    [][MainStepRan(3, "add_clefs") =>
           LET d == files[current_file].doc
               out == files'[temp_file2]
           IN  \A n \in ClefStaffNums(jGlyphs) :
                   LET clefs == ClefsOfStaff(jGlyphs, n)
                       at == MappedSbIndex(d.section, n)
                   IN  at # 0 =>
                         /\ out.exists
                         /\ \A j \in 1..Len(clefs) :
                              /\ \E z \in 1..Len(out.doc.zones) :
                                     out.doc.zones[z] = JsomrClefZone(clefs[j], n, j)
                              /\ \E p \in PositionsReferencing(out.doc.section[1].layer,
                                                               ZoneClefId(n, j)) :
                                     /\ out.doc.section[1].layer[p].tag = "clef"
                                     /\ p > at]_vars

\* the documents the requested steps from block i on make of the document d
\* when each step works on what the step before it left and a step that
\* writes nothing hands its input on
RECURSIVE StepsApplied(_, _)
StepsApplied(i, d) ==
    IF i > Len(MainSteps) THEN {d}
    ELSE IF MainSteps[i] \notin args THEN StepsApplied(i + 1, d)
    ELSE UNION { StepsApplied(i + 1, IF out.exists THEN out.doc ELSE d) :
                   out \in StepOutcomes(MainSteps[i], d) }

\* C28: when main has ended, the final output is the input with all requested
\* steps applied in order, a step that finds nothing to change or that fails
\* having passed its input document on unchanged
C28_OutputIsStepsInOrder ==
    (pc = 7 /\ args # {}) =>
        /\ files.output.exists
        /\ files.output.doc \in StepsApplied(1, files.mei.doc)


----------------------------------------------------------------------------
(* Further properties of the reconcile pass.                                *)

\* the position in the layer of the structural marker numbered k, 0 when the
\* layer has none
MarkerPosition(lay, k) == SbIndex(lay, ToString(k)) + 1

\* C27: after create_system_breaks followed by add_glyph_elements for two or
\* more staves, every glyph element assigned to staff n stands in the layer
\* after the structural marker numbered n and before the marker numbered n+1
C27_GlyphElementsUnderOwnMarker ==
    [][(StepOf("integrate") /\ Len(staves) >= 2) =>
           LET gbs == AssignGlyphsToStaves(glyphs, staves)
           IN  \A k \in 1..Len(gbs) :
                   LET ids == GlyphIdsOfStaff(gbs[k], k)
                   IN  ElementsReferencing(layer, ids) = <<>> =>
                         \A p \in 1..Len(layer') :
                             (~IsSb(layer'[p]) /\ IsRef(layer'[p].facs)
                                /\ RefTarget(layer'[p].facs) \in ids) =>
                                 /\ MarkerPosition(layer', k) # 0
                                 /\ MarkerPosition(layer', k) < p
                                 /\ k < Len(staves) => p < MarkerPosition(layer', k + 1)]_vars


----------------------------------------------------------------------------
(* Further properties of the structural repairer.                           *)

\* the per-staff containers restructure_mei_staves has just appended to the
\* section: the first staff is removed, the staffs after it stay in front
NewContainers == SubSeq(section', Len(section), Len(section'))

\* C29: staff-splitting (restructure_mei_staves) loses nothing: every element
\* of the original flat sequence appears exactly once in exactly one
\* per-staff container, with its attributes and its complete subtree
\* (children and deeper descendants), and no element that was not in the
\* original sequence is added
C29_SplitLosesNothing ==
    [][(StepOf("restructure") /\ section # <<>>) =>
           LET flat == section[1].layer
               put == Flatten(NewContainers)
           IN  \A v \in Range(flat) \cup Range(put) :
                   Occurrences(put, v) = Occurrences(flat, v)]_vars


----------------------------------------------------------------------------
(* Region ids.                                                              *)

\* C30: region ids stay unique: starting from a document whose regions carry
\* pairwise distinct ids (some regions may carry none), after any sequence of
\* operations no two regions in the container carry the same id
C30_RegionIdsUnique ==
    \A i, j \in 1..Len(zones) :
        (i < j /\ zones[i].id # NoId) => zones[i].id # zones[j].id

====
